---- MODULE Spec2Model ----
(***************************************************************************)
(* A model of the budget-governed, multi-source aggregation engine of      *)
(* insighthub: the Budget Governor (BudgetTracker) and the Rate Governor   *)
(* (RateLimiter) of backend/apps/ingestion/budget_control.py, the provider *)
(* adapters of backend/apps/ingestion/sources/, the Aggregator             *)
(* (DataCollector) and the serving views.                                   *)
(*                                                                         *)
(* Money is counted in integer units of $0.001, so the source's cost table *)
(* 0.005 / 0.017 / 0.007 / 0.0 and its default 0.01 are 5 / 17 / 7 / 0 and *)
(* 10.  Time is counted in whole seconds, calendar dates as day numbers.   *)
(***************************************************************************)
EXTENDS Integers, Sequences, FiniteSets, TLC

VARIABLES
    \* ---- BudgetTracker (budget_control.py) ----
    budget_data,     \* self.budget_data of the tracker
    budget_file,     \* content of data/api_budget.json
    file_exists,     \* whether data/api_budget.json exists
    today,           \* the calendar date datetime.now() falls on
    lastCheck,       \* the call and answer of the latest can_make_request
    lastOp,          \* the latest operation on the tracker
    nRecords,        \* number of record_request calls made so far
    sumCosts,        \* history: sum of the costs record_request returned
    recorded,        \* history: record_request calls per date and provider
    gated,           \* history: every record_request so far directly
                     \* followed a can_make_request that answered True
    logged,          \* history: the BUDGET ALERT lines written to the log
    \* ---- RateLimiter (budget_control.py) ----
    request_times,   \* self.request_times
    now,             \* the clock time() reads
    lastWait,        \* what the latest wait_if_needed call did
    admissions,      \* history: the times at which the latest calls of
                     \* wait_if_needed returned
    \* ---- adapters, DataCollector and views ----
    settings,        \* the provider credentials of django.conf.settings
    cache,           \* django.core.cache.cache
    response,        \* the response of the latest request
    events,          \* what the latest request did, in order
    asked,           \* the parameters of the latest request (source,
                     \* limit, business name), the network's behaviour
                     \* and the payload the provider would answer with
    nRequests,       \* number of requests served so far
    \* ---- concurrent callers of one tracker ----
    workers,         \* where each worker stands in its gated sequence
    \* ---- the governed adapters one process holds ----
    trackers,        \* self.budget_tracker.budget_data of each adapter
    limiters,        \* self.rate_limiter.request_times of each adapter
    answered         \* history: the provider's good answers per date

budgetVars == <<budget_data, budget_file, file_exists, today, lastCheck,
                lastOp, nRecords, sumCosts, recorded, gated, logged>>
rateVars == <<request_times, lastWait, admissions>>
collectorVars == <<settings, cache, response, events, asked, nRequests>>
providerVars == <<trackers, limiters, answered>>
vars == <<budgetVars, rateVars, now, collectorVars, workers, providerVars>>

(***************************************************************************)
(* Bounds of the model.  The source fixes the daily caps at 100 / 500 /    *)
(* 100 (default 50), the cost ceiling at $5.00 and the cost alert at $1.00 *)
(* (budget_control.py lines 23-27, 71, 81, 124).  The model runs the same  *)
(* code with these ceilings scaled down so that every ceiling is reached   *)
(* within a few requests.                                                   *)
(***************************************************************************)
GoogleDailyLimit == 2
YelpDailyLimit == 3
FoursquareDailyLimit == 2
DefaultDailyLimit == 2
MaxBudget == 40
CostAlertAt == 20
MaxDay == 2
MaxRecords == 4
NumWorkers == 2
MaxPhotos == 2
\* RateLimiter(requests_per_minute): the constructor's parameter (default 10).
RequestsPerMinute == 2
\* The clock values at which calls arrive.
MaxTime == 62
\* The number of requests the views serve.
MaxRequests == 2
\* The clock values at which requests arrive.
MaxClock == 300
\* The number of calls made to the adapters a process holds.
MaxCalls == 4
\* The length of the sliding window in seconds (the 60 of wait_if_needed).
Window == 60
\* Cache timeouts in seconds: search results and tips.
SearchTTL == 300
TipsTTL == 1800
DetailsTTL == 3600
CategoriesTTL == 86400
MaxRadius == 100000

Apis == {"google_places", "yelp"}
\* The order in which _check_alerts meets the providers.  At most one daily
\* alert is new in any one call (only the recorded provider's count moved),
\* so the order does not show in alerts_sent.
ApiOrder == <<"google_places", "yelp">>
Days == 1..MaxDay

\* The (api_name, endpoint) pairs the tracker is asked about.
Calls == { <<"google_places", "search">>, <<"google_places", "details">>,
           <<"yelp", "search">>, <<"yelp", "reviews">> }

EmptyMap == [x \in {} |-> 0]

\* self.daily_limits.get(api_name, 50)
daily_limits(api_name) ==
    CASE api_name = "google_places" -> GoogleDailyLimit
      [] api_name = "yelp" -> YelpDailyLimit
      [] api_name = "foursquare" -> FoursquareDailyLimit
      [] OTHER -> DefaultDailyLimit

\* self.cost_per_request.get(f"{api_name}_{endpoint}", 0.01)
cost_per_request(api_name, endpoint) ==
    CASE api_name = "google_places" /\ endpoint = "details" -> 5
      [] api_name = "google_places" /\ endpoint = "search" -> 17
      [] api_name = "google_places" /\ endpoint = "photos" -> 7
      [] api_name = "yelp" /\ endpoint = "business" -> 0
      [] api_name = "yelp" /\ endpoint = "search" -> 0
      [] api_name = "foursquare" /\ endpoint = "venues" -> 0
      [] OTHER -> 10

\* The budget_data a tracker starts with when no file exists.
InitialBudget ==
    [total_cost |-> 0, daily_usage |-> EmptyMap, alerts_sent |-> <<>>]

\* The request count daily_usage holds for a date and provider (0 if absent).
Count(bd, day, api_name) ==
    IF day \in DOMAIN bd.daily_usage
       /\ api_name \in DOMAIN bd.daily_usage[day]
    THEN bd.daily_usage[day][api_name]
    ELSE 0

\* "if today not in daily_usage: daily_usage[today] = {}" followed by
\* "if api_name not in daily_usage[today]: daily_usage[today][api_name] = 0"
InitUsage(du, day, api_name) ==
    LET du1 == IF day \in DOMAIN du THEN du ELSE du @@ (day :> EmptyMap)
    IN  IF api_name \in DOMAIN du1[day]
        THEN du1
        ELSE [du1 EXCEPT ![day] = @ @@ (api_name :> 0)]

\* Mutant: the cap is compared with the provider's count of any date.
can_make_request_any_date(bd, day, api_name, endpoint) ==
    LET du == InitUsage(bd.daily_usage, day, api_name)
        daily_limit == daily_limits(api_name)
        estimated_cost == cost_per_request(api_name, endpoint)
        ok == IF \E d \in DOMAIN du :
                     api_name \in DOMAIN du[d] /\ du[d][api_name] >= daily_limit
              THEN FALSE
              ELSE IF bd.total_cost + estimated_cost > MaxBudget THEN FALSE
              ELSE TRUE
    IN  [ok |-> ok, bd |-> [bd EXCEPT !.daily_usage = du]]

\* Mutant: the daily cap compared with > instead of >=.
can_make_request_gt(bd, day, api_name, endpoint) ==
    LET du == InitUsage(bd.daily_usage, day, api_name)
        ok == IF du[day][api_name] > daily_limits(api_name) THEN FALSE
              ELSE IF bd.total_cost + cost_per_request(api_name, endpoint)
                      > MaxBudget THEN FALSE
              ELSE TRUE
    IN  [ok |-> ok, bd |-> [bd EXCEPT !.daily_usage = du]]

\* Mutant: the cost ceiling compared with >= instead of >.
can_make_request_ge(bd, day, api_name, endpoint) ==
    LET du == InitUsage(bd.daily_usage, day, api_name)
        ok == IF du[day][api_name] >= daily_limits(api_name) THEN FALSE
              ELSE IF bd.total_cost + cost_per_request(api_name, endpoint)
                      >= MaxBudget THEN FALSE
              ELSE TRUE
    IN  [ok |-> ok, bd |-> [bd EXCEPT !.daily_usage = du]]

\* BudgetTracker.can_make_request: the answer and the budget_data it leaves.
can_make_request(bd, day, api_name, endpoint) ==
    LET du == InitUsage(bd.daily_usage, day, api_name)
        daily_count == du[day][api_name]
        daily_limit == daily_limits(api_name)
        estimated_cost == cost_per_request(api_name, endpoint)
        ok == IF daily_count >= daily_limit THEN FALSE
              ELSE IF bd.total_cost + estimated_cost > MaxBudget THEN FALSE
              ELSE TRUE
    IN  [ok |-> ok, bd |-> [bd EXCEPT !.daily_usage = du]]

\* f"{total_cost:.2f}": the amount in cents, rounded.
Cents(total) == (total + 5) \div 10

RECURSIVE DailyAlerts(_, _, _)
\* The loop over daily_usage[today].items() of _check_alerts.
DailyAlerts(usage, order, i) ==
    IF i > Len(order) THEN <<>>
    ELSE LET api_name == order[i]
             rest == DailyAlerts(usage, order, i + 1)
         IN  IF api_name \in DOMAIN usage
                /\ 10 * usage[api_name] >= 8 * daily_limits(api_name)
             THEN <<[kind |-> "daily", api |-> api_name,
                     count |-> usage[api_name],
                     limit |-> daily_limits(api_name)]>> \o rest
             ELSE rest

\* The loop of _check_alerts without "if alert not in alerts_sent": every
\* alert is logged and appended.
SendAlerts_resend(alerts, sent, fired) ==
    [sent |-> sent \o alerts, fired |-> fired \o alerts]

RECURSIVE SendAlerts(_, _, _)
\* "for alert in alerts: if alert not in alerts_sent: log, append"
\* Returns the new alerts_sent and the alerts logged.
SendAlerts(alerts, sent, fired) ==
    IF alerts = <<>> THEN [sent |-> sent, fired |-> fired]
    ELSE LET a == Head(alerts)
         IN  IF \E i \in 1..Len(sent) : sent[i] = a
             THEN SendAlerts(Tail(alerts), sent, fired)
             ELSE SendAlerts(Tail(alerts), Append(sent, a), Append(fired, a))

\* BudgetTracker._check_alerts
check_alerts(bd, day) ==
    LET daily == IF day \in DOMAIN bd.daily_usage
                 THEN DailyAlerts(bd.daily_usage[day], ApiOrder, 1)
                 ELSE <<>>
        cost == IF bd.total_cost >= CostAlertAt
                THEN <<[kind |-> "cost", api |-> "",
                        count |-> Cents(bd.total_cost), limit |-> 0]>>
                ELSE <<>>
        r == SendAlerts(daily \o cost, bd.alerts_sent, <<>>)
    IN  [bd |-> [bd EXCEPT !.alerts_sent = r.sent], fired |-> r.fired]

\* BudgetTracker._save_budget: the file content after json.dump.
save_budget(bd) == bd

\* Mutant: the file is written before the cost is added, and not after.
record_request_stale_save(bd, day, api_name, endpoint) ==
    LET du == InitUsage(bd.daily_usage, day, api_name)
        du1 == [du EXCEPT ![day][api_name] = @ + 1]
        cost == cost_per_request(api_name, endpoint)
        bd0 == [bd EXCEPT !.daily_usage = du1]
        a == check_alerts([bd0 EXCEPT !.total_cost = @ + cost], day)
    IN  [cost |-> cost, bd |-> a.bd, file |-> save_budget(bd0),
         fired |-> a.fired]

\* BudgetTracker.record_request: the cost returned, the budget_data and the
\* file it leaves, and the alerts it logged.
record_request(bd, day, api_name, endpoint) ==
    LET du == InitUsage(bd.daily_usage, day, api_name)
        du1 == [du EXCEPT ![day][api_name] = @ + 1]
        cost == cost_per_request(api_name, endpoint)
        bd1 == [bd EXCEPT !.daily_usage = du1, !.total_cost = @ + cost]
        a == check_alerts(bd1, day)
    IN  [cost |-> cost, bd |-> a.bd, file |-> save_budget(a.bd),
         fired |-> a.fired]

NoCheck == [api |-> "", endpoint |-> "", ok |-> FALSE, day |-> 0]

\* The request workers of one process, and a worker outside the gated
\* sequence.
Workers == 1..NumWorkers
IdleWorker == [pc |-> "idle", api |-> "", endpoint |-> ""]

BudgetInit ==
    \* BudgetTracker.__init__ with no file: initialise and save.
    /\ budget_data = InitialBudget
    /\ budget_file = save_budget(InitialBudget)
    /\ file_exists = TRUE
    /\ today = 1
    /\ lastCheck = NoCheck
    /\ lastOp = "init"
    /\ nRecords = 0
    /\ sumCosts = 0
    /\ recorded = [d \in Days |-> [a \in Apis |-> 0]]
    /\ gated = TRUE
    /\ logged = <<>>
    /\ workers = [w \in Workers |-> IdleWorker]
    \* no adapter has been constructed, none has asked its provider
    /\ trackers = [a \in Apis |-> InitialBudget]
    /\ limiters = [a \in Apis |-> <<>>]
    /\ answered = [d \in Days |-> [a \in Apis |-> 0]]

RateInit ==
    /\ request_times = <<>>
    /\ now = 0
    /\ lastWait = [called |-> FALSE, at |-> 0, before |-> <<>>,
                   slept |-> 0, error |-> FALSE]
    /\ admissions = <<>>

NoResponse ==
    [view |-> "none", status |-> 0, success |-> FALSE, source |-> "",
     location |-> "", query |-> <<>>, category |-> <<>>, count |-> 0,
     items |-> <<>>, timestamp |-> 0, cached |-> FALSE, cache_source |-> "",
     avg_rating |-> 0, avg_reviews |-> 0,
     \* history: the search results a competitor analysis chose from
     found |-> <<>>]

\* No place: a record that cannot be formatted.
NoPlace ==
    [id |-> 0, name |-> <<>>, categories |-> {}, rating |-> 0,
     tip_count |-> 0, valid |-> FALSE]

NoAsk ==
    [numeric |-> TRUE, raw |-> 0, net |-> "", source |-> "", name |-> <<>>,
     places |-> <<>>, tips |-> <<>>, place |-> NoPlace]

\* No request served yet, the cache empty.
CollectorInit ==
    /\ cache = [k \in {} |-> 0]
    /\ response = NoResponse
    /\ events = <<>>
    /\ asked = NoAsk
    /\ nRequests = 0

\* A process configured with a Foursquare API key.
Init ==
    /\ BudgetInit /\ RateInit /\ CollectorInit
    /\ settings = [client_id |-> "real-id", client_secret |-> TRUE,
                   api_key |-> TRUE, google_places_api_key |-> "",
                   yelp_api_key |-> ""]

\* A caller asks the tracker whether a request may go out.
CanMakeRequest(api_name, endpoint) ==
    LET r == can_make_request(budget_data, today, api_name, endpoint)
    IN  /\ budget_data' = r.bd
        /\ lastCheck' = [api |-> api_name, endpoint |-> endpoint,
                         ok |-> r.ok, day |-> today]
        /\ lastOp' = "can_make_request"
        /\ UNCHANGED <<budget_file, file_exists, today, nRecords, sumCosts,
                       recorded, gated, logged>>
        /\ UNCHANGED <<rateVars, now, collectorVars, workers,
                       providerVars>>

\* A caller records a request.
RecordRequest(api_name, endpoint) ==
    /\ nRecords < MaxRecords
    /\ LET r == record_request(budget_data, today, api_name, endpoint)
       IN  /\ budget_data' = r.bd
           /\ budget_file' = r.file
           /\ file_exists' = TRUE
           /\ sumCosts' = sumCosts + r.cost
           /\ logged' = logged \o r.fired
    /\ recorded' = [recorded EXCEPT ![today][api_name] = @ + 1]
    /\ gated' = (gated /\ lastCheck.api = api_name
                      /\ lastCheck.endpoint = endpoint /\ lastCheck.ok)
    /\ lastCheck' = NoCheck
    /\ lastOp' = "record_request"
    /\ nRecords' = nRecords + 1
    /\ UNCHANGED today
    /\ UNCHANGED <<rateVars, now, collectorVars, workers,
                   providerVars>>

\* Mutant: every construction starts a new budget period.
load_budget_new_period(exists, file) ==
    [bd |-> InitialBudget, file |-> save_budget(InitialBudget)]

\* BudgetTracker._load_budget
load_budget(exists, file) ==
    IF exists THEN [bd |-> file, file |-> file]
    ELSE [bd |-> InitialBudget, file |-> save_budget(InitialBudget)]

\* The process restarts: a new BudgetTracker is constructed from the file.
Restart ==
    /\ lastOp # "restart"
    /\ LET r == load_budget(file_exists, budget_file)
       IN  /\ budget_data' = r.bd
           /\ budget_file' = r.file
    /\ file_exists' = TRUE
    /\ lastCheck' = NoCheck
    /\ lastOp' = "restart"
    /\ UNCHANGED <<today, nRecords, sumCosts, recorded, gated, logged>>
    /\ UNCHANGED <<rateVars, now, collectorVars, workers,
                   providerVars>>

\* Midnight passes.
NextDay ==
    /\ today < MaxDay
    /\ today' = today + 1
    /\ UNCHANGED <<budget_data, budget_file, file_exists, lastCheck, lastOp,
                   nRecords, sumCosts, recorded, gated, logged>>
    /\ UNCHANGED <<rateVars, now, collectorVars, workers,
                   providerVars>>

BudgetNext ==
    \/ \E c \in Calls : CanMakeRequest(c[1], c[2])
    \/ \E c \in Calls : RecordRequest(c[1], c[2])
    \/ Restart
    \/ NextDay

\* The budget tracker driven by arbitrary callers.
SpecBudget == Init /\ [][BudgetNext]_vars

\* A worker enters an adapter operation: "if not
\* self.budget_tracker.can_make_request(...): raise Exception(...)".
WorkerCheck(w, api_name, endpoint) ==
    /\ workers[w].pc = "idle"
    /\ LET r == can_make_request(budget_data, today, api_name, endpoint)
       IN  /\ budget_data' = r.bd
           /\ lastCheck' = [api |-> api_name, endpoint |-> endpoint,
                            ok |-> r.ok, day |-> today]
           /\ workers' = [workers EXCEPT ![w] =
                             IF r.ok
                             THEN [pc |-> "admitted", api |-> api_name,
                                   endpoint |-> endpoint]
                             ELSE IdleWorker]
    /\ lastOp' = "can_make_request"
    /\ UNCHANGED <<budget_file, file_exists, today, nRecords, sumCosts,
                   recorded, gated, logged>>
    /\ UNCHANGED <<rateVars, now, collectorVars, providerVars>>

\* The admitted worker's request came back: "self.budget_tracker
\* .record_request(...)".
WorkerRecord(w) ==
    /\ workers[w].pc = "admitted"
    /\ nRecords < MaxRecords
    /\ LET r == record_request(budget_data, today, workers[w].api,
                               workers[w].endpoint)
       IN  /\ budget_data' = r.bd
           /\ budget_file' = r.file
           /\ file_exists' = TRUE
           /\ sumCosts' = sumCosts + r.cost
           /\ logged' = logged \o r.fired
    /\ recorded' = [recorded EXCEPT ![today][workers[w].api] = @ + 1]
    /\ gated' = (gated /\ lastCheck.api = workers[w].api
                      /\ lastCheck.endpoint = workers[w].endpoint
                      /\ lastCheck.ok)
    /\ lastCheck' = NoCheck
    /\ lastOp' = "record_request"
    /\ nRecords' = nRecords + 1
    /\ workers' = [workers EXCEPT ![w] = IdleWorker]
    /\ UNCHANGED today
    /\ UNCHANGED <<rateVars, now, collectorVars, providerVars>>

\* The admitted worker's request failed: the RequestException leaves the
\* operation before record_request.
WorkerFails(w) ==
    /\ workers[w].pc = "admitted"
    /\ workers' = [workers EXCEPT ![w] = IdleWorker]
    /\ UNCHANGED <<budgetVars, rateVars, now, collectorVars, providerVars>>

WorkersNext ==
    \/ \E w \in Workers, c \in Calls : WorkerCheck(w, c[1], c[2])
    \/ \E w \in Workers : WorkerRecord(w)
    \/ \E w \in Workers : WorkerFails(w)

\* The workers of one process run the gated sequence of an adapter
\* operation against one tracker; nothing orders their steps.
SpecWorkers == Init /\ [][WorkersNext]_vars

(***************************************************************************)
(* RateLimiter                                                             *)
(***************************************************************************)
RECURSIVE SeqMin(_)
\* min(self.request_times); only called on a non-empty list.
SeqMin(ts) ==
    IF Len(ts) = 1 THEN ts[1]
    ELSE LET m == SeqMin(Tail(ts))
         IN  IF ts[1] <= m THEN ts[1] ELSE m

\* "[t for t in self.request_times if now - t < 60]"
Prune(ts, t) == SelectSeq(ts, LAMBDA x : t - x < Window)

\* Mutant: old requests are never removed from the list.
wait_if_needed_no_prune(ts, t, limit) ==
    LET atLimit == Len(ts) >= limit
        error == atLimit /\ ts = <<>>
        wait_time == IF atLimit /\ ~error THEN Window - (t - SeqMin(ts)) ELSE 0
        slept == IF atLimit /\ wait_time > 0 THEN wait_time ELSE 0
    IN  [times |-> IF error THEN ts ELSE Append(ts, t),
         slept |-> slept, error |-> error]

\* Mutant: a call that finds the window full is turned away unrecorded.
wait_if_needed_reject(ts, t, limit) ==
    LET pruned == Prune(ts, t)
        atLimit == Len(pruned) >= limit
    IN  [times |-> IF atLimit THEN pruned ELSE Append(pruned, t),
         slept |-> 0, error |-> atLimit]

\* RateLimiter.wait_if_needed called when the clock reads t: the list it
\* leaves, the seconds it sleeps, and whether min() raised on an empty list.
wait_if_needed(ts, t, limit) ==
    LET pruned == Prune(ts, t)
        atLimit == Len(pruned) >= limit
        error == atLimit /\ pruned = <<>>
        wait_time == IF atLimit /\ ~error
                     THEN Window - (t - SeqMin(pruned))
                     ELSE 0
        slept == IF atLimit /\ wait_time > 0 THEN wait_time ELSE 0
    IN  [times |-> IF error THEN pruned ELSE Append(pruned, t),
         slept |-> slept, error |-> error]

\* The last n items of a sequence.
Latest(seq, n) ==
    IF Len(seq) <= n THEN seq ELSE SubSeq(seq, Len(seq) - n + 1, Len(seq))

\* A caller passes the rate gate; it is suspended while the call sleeps.
WaitIfNeeded ==
    /\ now <= MaxTime
    /\ LET r == wait_if_needed(request_times, now, RequestsPerMinute)
       IN  /\ request_times' = r.times
           /\ now' = now + r.slept
           /\ lastWait' = [called |-> TRUE, at |-> now, before |-> request_times,
                           slept |-> r.slept, error |-> r.error]
           /\ admissions' = Latest(Append(admissions, now + r.slept),
                                   RequestsPerMinute + 1)
    /\ UNCHANGED <<budgetVars, collectorVars, workers,
                   providerVars>>

\* Time passes between calls.
Tick(dt) ==
    /\ now + dt <= MaxTime
    /\ now' = now + dt
    /\ UNCHANGED <<request_times, lastWait, admissions>>
    /\ UNCHANGED <<budgetVars, collectorVars, workers,
                   providerVars>>

RateNext ==
    \/ WaitIfNeeded
    \/ \E dt \in {1, 59} : Tick(dt)

\* One rate limiter driven by any sequential pattern of calls.
SpecRate == Init /\ [][RateNext]_vars

(***************************************************************************)
(* Provider adapters: Foursquare and Mock                                  *)
(***************************************************************************)

\* One thing an operation did: an adapter method being called with a limit,
\* a cache read or write, a network request with the limit and radius sent,
\* an exception leaving the adapter, a budget check that passed
\* ("budget_ok"), a rate gate passed ("rate_admit"), a fallback.
Ev(ev, who, op, limit, radius) ==
    [ev |-> ev, who |-> who, op |-> op, limit |-> limit, radius |-> radius]

\* Python's seq[:n]: the first n items, or all but the last -n when n < 0.
Slice(seq, n) ==
    LET m == IF n >= 0 THEN (IF n < Len(seq) THEN n ELSE Len(seq))
             ELSE (IF Len(seq) + n > 0 THEN Len(seq) + n ELSE 0)
    IN  SubSeq(seq, 1, m)

\* min(a, b)
Min(a, b) == IF a <= b THEN a ELSE b

\* max(a, b)
Max(a, b) == IF a >= b THEN a ELSE b

\* settings.FOURSQUARE_CLIENT_ID, FOURSQUARE_CLIENT_SECRET, FOURSQUARE_API_KEY,
\* GOOGLE_PLACES_API_KEY and YELP_API_KEY: the credentials the process is
\* configured with.
FoursquareConfigs ==
    { [client_id |-> "", client_secret |-> FALSE, api_key |-> FALSE],
      [client_id |-> "your-client-id-here", client_secret |-> TRUE,
       api_key |-> FALSE],
      [client_id |-> "real-id", client_secret |-> FALSE, api_key |-> FALSE],
      [client_id |-> "real-id", client_secret |-> TRUE, api_key |-> FALSE],
      [client_id |-> "real-id", client_secret |-> TRUE, api_key |-> TRUE] }

Configs ==
    { [client_id |-> f.client_id, client_secret |-> f.client_secret,
       api_key |-> f.api_key, google_places_api_key |-> "",
       yelp_api_key |-> ""] : f \in FoursquareConfigs }
    \cup { [client_id |-> "", client_secret |-> FALSE, api_key |-> FALSE,
             google_places_api_key |-> "real-key",
             yelp_api_key |-> "your-yelp-api-key-here"] }

\* GooglePlacesSource.__init__ raises ValueError without an API key.
GooglePlacesConstructs(cfg) ==
    ~(cfg.google_places_api_key = ""
      \/ cfg.google_places_api_key = "your-google-places-api-key-here")

\* YelpSource.__init__ raises ValueError without an API key.
YelpConstructs(cfg) ==
    ~(cfg.yelp_api_key = "" \/ cfg.yelp_api_key = "your-yelp-api-key-here")

\* FoursquareSource.__init__ raises ValueError without an API key or a
\* client id and secret.
FoursquareConstructs(cfg) ==
    ~(~cfg.api_key /\ (cfg.client_id = "" \/ ~cfg.client_secret))

\* _initialize_sources registering mock only when no provider is registered.
Sources_mock_last(cfg) ==
    IF cfg.client_id # "" /\ cfg.client_id # "your-client-id-here"
       /\ FoursquareConstructs(cfg)
    THEN {"foursquare"} ELSE {"mock"}

\* DataCollector._initialize_sources: the names registered in self.sources.
Sources(cfg) ==
    {"mock"} \cup
    (IF cfg.client_id # "" /\ cfg.client_id # "your-client-id-here"
        /\ FoursquareConstructs(cfg)
     THEN {"foursquare"} ELSE {})

\* DataCollector.get_primary_source
get_primary_source(cfg) ==
    IF "foursquare" \in Sources(cfg) THEN "foursquare" ELSE "mock"

\* Cache keys: f"foursquare_search:{location}:{query}:{category}:{limit}"
\* and f"foursquare_tips:{fsq_id}:{limit}".
SearchKey(location, query, category, limit) ==
    [kind |-> "foursquare_search", a |-> location, b |-> query,
     c |-> category, limit |-> limit]

TipsKey(fsq_id, limit) ==
    [kind |-> "foursquare_tips", a |-> fsq_id, b |-> <<>>, c |-> <<>>,
     limit |-> limit]

\* f"foursquare_details:{fsq_id}"
DetailsKey(fsq_id) ==
    [kind |-> "foursquare_details", a |-> fsq_id, b |-> <<>>, c |-> <<>>,
     limit |-> 0]

\* "foursquare_categories"
CategoriesKey ==
    [kind |-> "foursquare_categories", a |-> <<>>, b |-> <<>>, c |-> <<>>,
     limit |-> 0]

\* cache.get(key) handing out a value whose timeout has just run out.
CacheGet_late(c, key, t) ==
    IF key \in DOMAIN c /\ t <= c[key].expires
    THEN [found |-> TRUE, value |-> c[key].value]
    ELSE [found |-> FALSE, value |-> <<>>]

\* cache.get(key): the stored value while its timeout has not run out.
CacheGet(c, key, t) ==
    IF key \in DOMAIN c /\ t < c[key].expires
    THEN [found |-> TRUE, value |-> c[key].value]
    ELSE [found |-> FALSE, value |-> <<>>]

\* cache.set(key, value, timeout)
CacheSet(c, key, value, t, timeout) ==
    [k \in (DOMAIN c) \cup {key} |->
        IF k = key THEN [value |-> value, expires |-> t + timeout] ELSE c[k]]

\* FoursquareSource._format_business on each place of a batch: a place that
\* raises while being formatted yields None and is left out.
RECURSIVE FormatPlaces(_)
FormatPlaces(places) ==
    IF places = <<>> THEN <<>>
    ELSE LET p == Head(places)
         IN  IF p.valid
             THEN <<[id |-> p.id, name |-> p.name,
                     categories |-> p.categories, rating |-> p.rating,
                     tip_count |-> p.tip_count, source |-> "foursquare",
                     data_source |-> ""]>> \o FormatPlaces(Tail(places))
             ELSE FormatPlaces(Tail(places))

\* FoursquareSource.search_businesses.  net is what the network does:
\* "ok" (a JSON body listing places), "http_error" (requests.get or
\* raise_for_status raises a RequestException) or "bad_body" (the body parses
\* to something that is not a JSON object, so data.get raises).
fsq_search(c, t, cfg, location, query, category, radius, limit, net, places) ==
    LET key == SearchKey(location, query, category, limit)
        cached == CacheGet(c, key, t)
        called == Ev("call", "foursquare", "search", limit, radius)
        sent == Ev("network", "foursquare",
                   IF cfg.api_key THEN "v3_search" ELSE "v2_search",
                   Min(limit, 50), Min(radius, MaxRadius))
    IN  IF cached.found /\ cached.value # <<>>
        THEN [raised |-> FALSE, value |-> cached.value, cache |-> c,
              events |-> <<called, Ev("cache_hit", "foursquare", "search",
                                      limit, 0)>>]
        ELSE IF net = "ok"
        THEN LET businesses == FormatPlaces(Slice(places, limit))
             IN  [raised |-> FALSE, value |-> businesses,
                  cache |-> CacheSet(c, key, businesses, t, SearchTTL),
                  events |-> <<called, sent,
                               Ev("cache_set", "foursquare", "search",
                                  limit, 0)>>]
        ELSE [raised |-> TRUE, value |-> <<>>, cache |-> c,
              events |-> <<called, sent,
                           Ev("raise", "foursquare", "search", limit, 0)>>]

\* FoursquareSource._format_tip on each tip of a batch; the first tip that
\* raises aborts the batch.
FormatTips(tips) ==
    IF \E i \in 1..Len(tips) : ~tips[i].valid
    THEN [raised |-> TRUE, value |-> <<>>]
    ELSE [raised |-> FALSE,
          value |-> [i \in 1..Len(tips) |->
                        [id |-> tips[i].id, rating |-> 0,
                         source |-> "foursquare", data_source |-> ""]]]

\* FoursquareSource.get_reviews.  A failing request is answered with [];
\* an exception of _format_tip propagates.
fsq_reviews(c, t, cfg, fsq_id, limit, net, tips) ==
    LET key == TipsKey(fsq_id, limit)
        cached == CacheGet(c, key, t)
        called == Ev("call", "foursquare", "reviews", limit, 0)
        sent == Ev("network", "foursquare",
                   IF cfg.api_key THEN "v3_tips" ELSE "v2_tips",
                   Min(limit, 50), 0)
    IN  IF cached.found /\ cached.value # <<>>
        THEN [raised |-> FALSE, value |-> cached.value, cache |-> c,
              events |-> <<called, Ev("cache_hit", "foursquare", "reviews",
                                      limit, 0)>>]
        ELSE IF net = "ok"
        THEN LET f == FormatTips(Slice(tips, limit))
             IN  IF f.raised
                 THEN [raised |-> TRUE, value |-> <<>>, cache |-> c,
                       events |-> <<called, sent,
                                    Ev("raise", "foursquare", "reviews",
                                       limit, 0)>>]
                 ELSE [raised |-> FALSE, value |-> f.value,
                       cache |-> CacheSet(c, key, f.value, t, TipsTTL),
                       events |-> <<called, sent,
                                    Ev("cache_set", "foursquare", "reviews",
                                       limit, 0)>>]
        ELSE [raised |-> net = "bad_body", value |-> <<>>, cache |-> c,
              events |-> IF net = "bad_body"
                         THEN <<called, sent,
                                Ev("raise", "foursquare", "reviews",
                                   limit, 0)>>
                         ELSE <<called, sent>>]

\* FoursquareSource.get_photos(fsq_id, limit): the number of photos kept of
\* the answer of the photos endpoint, "photos[:limit]"; a failing request
\* counts as an answer without photos.
get_photos(answer, limit) == Min(answer, limit)

\* FoursquareSource._format_detailed_business: {} for a place that
\* _format_business cannot format, else the business with the photos
\* get_photos(details['id'], limit=5) fetches.
format_detailed_business(place, answer) ==
    IF ~place.valid THEN <<>>
    ELSE <<[id |-> place.id, name |-> place.name,
            categories |-> place.categories, rating |-> place.rating,
            tip_count |-> place.tip_count, source |-> "foursquare",
            data_source |-> "", photos |-> get_photos(answer, 5)]>>

\* FoursquareSource.get_business_details.  The details are a list of at most
\* one record: <<>> stands for the empty dict _format_detailed_business
\* returns for a place it cannot format, none for the None of a failing
\* request.  A place that can be formatted costs a second request, for its
\* photos; a falsy cache entry is fetched again.
fsq_details(c, t, cfg, fsq_id, net, place, answer) ==
    LET key == DetailsKey(fsq_id)
        cached == CacheGet(c, key, t)
        called == Ev("call", "foursquare", "details", 0, 0)
        sent == Ev("network", "foursquare",
                   IF cfg.api_key THEN "v3_details" ELSE "v2_details", 0, 0)
        photos == Ev("network", "foursquare",
                     IF cfg.api_key THEN "v3_photos" ELSE "v2_photos", 5, 0)
    IN  IF cached.found /\ cached.value # <<>>
        THEN [raised |-> FALSE, none |-> FALSE, value |-> cached.value,
              cache |-> c,
              events |-> <<called, Ev("cache_hit", "foursquare", "details",
                                      0, 0)>>]
        ELSE IF net = "ok"
        THEN LET details == format_detailed_business(place, answer)
             IN  [raised |-> FALSE, none |-> FALSE, value |-> details,
                  cache |-> CacheSet(c, key, details, t, DetailsTTL),
                  events |-> <<called, sent>>
                             \o (IF details = <<>> THEN <<>> ELSE <<photos>>)
                             \o <<Ev("cache_set", "foursquare", "details",
                                     0, 0)>>]
        ELSE [raised |-> net = "bad_body", none |-> net # "bad_body",
              value |-> <<>>, cache |-> c,
              events |-> IF net = "bad_body"
                         THEN <<called, sent,
                                Ev("raise", "foursquare", "details", 0, 0)>>
                         ELSE <<called, sent>>]

\* FoursquareSource.get_categories: the provider's list as it comes, kept
\* for 24 hours; [] for a failing request.
fsq_categories(c, t, cfg, net, categories) ==
    LET key == CategoriesKey
        cached == CacheGet(c, key, t)
        called == Ev("call", "foursquare", "categories", 0, 0)
        sent == Ev("network", "foursquare",
                   IF cfg.api_key THEN "v3_categories" ELSE "v2_categories",
                   0, 0)
    IN  IF cached.found /\ cached.value # <<>>
        THEN [raised |-> FALSE, value |-> cached.value, cache |-> c,
              events |-> <<called, Ev("cache_hit", "foursquare",
                                      "categories", 0, 0)>>]
        ELSE IF net = "ok"
        THEN [raised |-> FALSE, value |-> categories,
              cache |-> CacheSet(c, key, categories, t, CategoriesTTL),
              events |-> <<called, sent,
                           Ev("cache_set", "foursquare", "categories",
                              0, 0)>>]
        ELSE [raised |-> net = "bad_body", value |-> <<>>, cache |-> c,
              events |-> IF net = "bad_body"
                         THEN <<called, sent,
                                Ev("raise", "foursquare", "categories",
                                   0, 0)>>
                         ELSE <<called, sent>>]

\* _format_business of GooglePlacesSource and of YelpSource on each place
\* of a batch.
FormatGoverned(api_name, places) ==
    [i \in 1..Len(places) |->
        [id |-> places[i].id, name |-> places[i].name,
         categories |-> places[i].categories, rating |-> places[i].rating,
         tip_count |-> places[i].tip_count, source |-> api_name,
         data_source |-> ""]]

\* Mutant: the request is recorded when it is sent, whatever comes back.
governed_call_record_sent(api_name, bd, ts, t, day, radius, limit, kept, net, places) ==
    LET check == can_make_request(bd, day, api_name, "search")
        gate == wait_if_needed(ts, t, RequestsPerMinute)
        rec == record_request(check.bd, day, api_name, "search")
        looked == Slice(places, kept)
        bad == net # "ok" \/ \E i \in 1..Len(looked) : ~looked[i].valid
        called == Ev("call", api_name, "search", limit, radius)
        admitted == <<called, Ev("budget_ok", api_name, "search", limit, 0),
                      Ev("rate_admit", api_name, "search", limit, 0),
                      Ev("network", api_name, "search", limit, radius)>>
        failed == Ev("raise", api_name, "search", limit, 0)
    IN  IF ~check.ok
        THEN [raised |-> TRUE, value |-> <<>>, checked |-> TRUE,
              recorded |-> FALSE, cost |-> 0, bd |-> check.bd,
              file |-> bd, fired |-> <<>>, gate |-> gate,
              admitted |-> FALSE, events |-> <<called, failed>>]
        ELSE [raised |-> bad,
              value |-> IF bad THEN <<>>
                        ELSE FormatGoverned(api_name, looked),
              checked |-> TRUE, recorded |-> TRUE, cost |-> rec.cost,
              bd |-> rec.bd, file |-> rec.file, fired |-> rec.fired,
              gate |-> gate, admitted |-> TRUE,
              events |-> IF bad THEN Append(admitted, failed)
                         ELSE admitted]

\* Mutant: the rate gate is passed before the budget is checked.
governed_call_rate_first(api_name, bd, ts, t, day, radius, limit, kept, net, places) ==
    LET check == can_make_request(bd, day, api_name, "search")
        gate == wait_if_needed(ts, t, RequestsPerMinute)
        rec == record_request(check.bd, day, api_name, "search")
        looked == Slice(places, kept)
        bad == net = "bad_body"
               \/ \E i \in 1..Len(looked) : ~looked[i].valid
        called == Ev("call", api_name, "search", limit, radius)
        passed == <<called, Ev("rate_admit", api_name, "search", limit, 0)>>
        admitted == passed \o
                    <<Ev("budget_ok", api_name, "search", limit, 0),
                      Ev("network", api_name, "search", limit, radius)>>
        failed == Ev("raise", api_name, "search", limit, 0)
    IN  IF ~check.ok \/ net = "http_error"
        THEN [raised |-> TRUE, value |-> <<>>, checked |-> TRUE,
              recorded |-> FALSE, cost |-> 0, bd |-> check.bd,
              file |-> bd, fired |-> <<>>, gate |-> gate,
              admitted |-> TRUE,
              events |-> IF check.ok THEN Append(admitted, failed)
                         ELSE Append(passed, failed)]
        ELSE [raised |-> bad,
              value |-> IF bad THEN <<>>
                        ELSE FormatGoverned(api_name, looked),
              checked |-> TRUE, recorded |-> TRUE, cost |-> rec.cost,
              bd |-> rec.bd, file |-> rec.file, fired |-> rec.fired,
              gate |-> gate, admitted |-> TRUE,
              events |-> IF bad THEN Append(admitted, failed)
                         ELSE admitted]

\* search_businesses of an adapter that is governed by a BudgetTracker and
\* a RateLimiter of its own: GooglePlacesSource.search_businesses and
\* YelpSource.search_businesses, on the tracker's budget_data bd and the
\* limiter's request_times ts.  The budget is checked, the rate gate passed,
\* the request sent with the radius as it was given, and the request
\* recorded once the body is read; "kept" is how many places of the answer
\* are looked at.  A failing request raises; a body that is not the
\* expected object raises after the request was recorded, and so does a
\* place that cannot be formatted (its handler names a logger the module
\* never defines).
governed_call(api_name, bd, ts, t, day, radius, limit, kept, net, places) ==
    LET check == can_make_request(bd, day, api_name, "search")
        gate == wait_if_needed(ts, t, RequestsPerMinute)
        rec == record_request(check.bd, day, api_name, "search")
        looked == Slice(places, kept)
        bad == net = "bad_body"
               \/ \E i \in 1..Len(looked) : ~looked[i].valid
        called == Ev("call", api_name, "search", limit, radius)
        sent == Ev("network", api_name, "search", limit, radius)
        admitted == <<called, Ev("budget_ok", api_name, "search", limit, 0),
                      Ev("rate_admit", api_name, "search", limit, 0), sent>>
        failed == Ev("raise", api_name, "search", limit, 0)
    IN  IF ~check.ok
        THEN [raised |-> TRUE, value |-> <<>>, checked |-> TRUE,
              recorded |-> FALSE, cost |-> 0, bd |-> check.bd,
              file |-> bd, fired |-> <<>>, gate |-> gate,
              admitted |-> FALSE, events |-> <<called, failed>>]
        ELSE IF net = "http_error"
        THEN [raised |-> TRUE, value |-> <<>>, checked |-> TRUE,
              recorded |-> FALSE, cost |-> 0, bd |-> check.bd,
              file |-> bd, fired |-> <<>>, gate |-> gate,
              admitted |-> TRUE, events |-> Append(admitted, failed)]
        ELSE [raised |-> bad,
              value |-> IF bad THEN <<>>
                        ELSE FormatGoverned(api_name, looked),
              checked |-> TRUE, recorded |-> TRUE, cost |-> rec.cost,
              bd |-> rec.bd, file |-> rec.file, fired |-> rec.fired,
              gate |-> gate, admitted |-> TRUE,
              events |-> IF bad THEN Append(admitted, failed)
                         ELSE admitted]

\* GooglePlacesSource().search_businesses and YelpSource().search_businesses
\* of an adapter made for the call: the constructor makes a RateLimiter,
\* loads the budget into a BudgetTracker and then raises without a
\* credential.  The file is what the call leaves in it.
governed_search(api_name, constructs, exists, file, t, day, radius, limit, kept, net, places) ==
    LET tracker == load_budget(exists, file)
        r == governed_call(api_name, tracker.bd, <<>>, t, day, radius, limit,
                           kept, net, places)
    IN  IF ~constructs
        THEN [raised |-> TRUE, value |-> <<>>, checked |-> FALSE,
              recorded |-> FALSE, cost |-> 0, bd |-> tracker.bd,
              file |-> tracker.file, fired |-> <<>>, gate |-> r.gate,
              admitted |-> FALSE,
              events |-> <<Ev("raise", api_name, "search", limit, 0)>>]
        ELSE IF r.recorded THEN r
        ELSE [r EXCEPT !.file = tracker.file]

\* GooglePlacesSource.search_businesses: no limit is sent, the first 10
\* results are kept.
google_search(cfg, exists, file, t, day, radius, net, places) ==
    governed_search("google_places", GooglePlacesConstructs(cfg), exists,
                    file, t, day, radius, 0, 10, net, places)

\* YelpSource.search_businesses: the limit is sent, every business of the
\* answer is kept.
yelp_search(cfg, exists, file, t, day, radius, limit, net, places) ==
    governed_search("yelp", YelpConstructs(cfg), exists, file, t, day,
                    radius, limit, Len(places), net, places)

\* Text is modelled as sequences of characters.
StrPizza == <<"p","i","z","z","a">>
StrCafeUpper == <<"C","A","F","E">>
StrZen == <<"Z","e","n">>
StrDiner == <<"D","i","n","e","r">>
StrPizzaPlace == <<"P","i","z","z","a"," ","P","l","a","c","e">>
StrPizzaPalace == <<"P","i","z","z","a"," ","P","a","l","a","c","e">>
StrMonksCafe == <<"M","o","n","k","'","s"," ","C","a","f","e">>
StrSushiZen == <<"S","u","s","h","i"," ","Z","e","n">>
StrSushi == <<"S","u","s","h","i">>

\* MockDataSource.BUSINESS_TEMPLATES (three of the eight): name, categories
\* (one of each template's two) and typical_rating in tenths.
Templates ==
    << [name |-> StrPizzaPalace, categories |-> {StrPizzaPlace},
        rating |-> 82],
       [name |-> StrMonksCafe, categories |-> {StrDiner}, rating |-> 78],
       [name |-> StrSushiZen, categories |-> {StrSushi}, rating |-> 91] >>

\* str.lower() on one character.
LowerChar(ch) ==
    CASE ch = "A" -> "a" [] ch = "C" -> "c" [] ch = "D" -> "d"
      [] ch = "E" -> "e" [] ch = "F" -> "f" [] ch = "M" -> "m"
      [] ch = "P" -> "p" [] ch = "S" -> "s" [] ch = "Z" -> "z"
      [] OTHER -> ch

\* str.lower()
Lower(str) == [i \in 1..Len(str) |-> LowerChar(str[i])]

\* Python's "sub in str" on character sequences.
Contains(sub, str) ==
    \E k \in 0..(Len(str) - Len(sub)) :
        \A i \in 1..Len(sub) : str[k + i] = sub[i]

\* The draws of the random module in one mock search: seed picks the
\* template of every business (the first template for all, or the templates
\* in turn), the rating within typical_rating +/- 0.3 and the tip count.
MockSeeds == {0, Len(Templates)}

\* MockDataSource._generate_business
generate_business(seed, index) ==
    LET tpl == IF seed < Len(Templates) THEN Templates[seed + 1]
               ELSE Templates[(index % Len(Templates)) + 1]
    IN  [id |-> index, name |-> tpl.name, categories |-> tpl.categories,
         rating |-> tpl.rating + (index % 2),
         tip_count |-> 10 + 5 * (index % 3), source |-> "mock",
         data_source |-> ""]

\* MockDataSource.search_businesses: range(min(limit, 20)) businesses, those
\* not matching the query or the category are skipped.
mock_search(seed, query, category, limit) ==
    LET n == Max(Min(limit, 20), 0)
        all == [i \in 1..n |-> generate_business(seed, i - 1)]
    IN  SelectSeq(all, LAMBDA b :
            /\ (query = <<>> \/ Contains(Lower(query), Lower(b.name)))
            /\ (category = <<>> \/ category \in b.categories))

\* MockDataSource.get_reviews: range(min(limit, 20)) tips without rating.
mock_reviews(business_id, limit) ==
    [i \in 1..Max(Min(limit, 20), 0) |->
        [id |-> i - 1, rating |-> 0, source |-> "mock", data_source |-> ""]]

\* MockDataSource.get_categories: the categories of the templates, each
\* once, in the order of the templates.
mock_categories ==
    [i \in 1..Len(Templates) |->
        [id |-> i - 1,
         name |-> CHOOSE cat \in Templates[i].categories : TRUE]]

\* MockDataSource.get_business_details: a fresh adapter has generated
\* nothing, so the business is made up from the number that ends the id.
mock_details(seed, business_id) ==
    LET b == generate_business(seed, business_id.n)
    IN  <<[id |-> b.id, name |-> b.name, categories |-> b.categories,
           rating |-> b.rating, tip_count |-> b.tip_count,
           source |-> b.source, data_source |-> b.data_source,
           photos |-> 5]>>


(***************************************************************************)
(* DataCollector                                                           *)
(***************************************************************************)

\* "for business in businesses: business['data_source'] = source"
Tag(items, source) ==
    [i \in 1..Len(items) |-> [items[i] EXCEPT !.data_source = source]]

\* What a view or the collector hands back when it has no result.
NoResult ==
    [success |-> FALSE, source |-> "", location |-> "", query |-> <<>>,
     category |-> <<>>, count |-> 0, businesses |-> <<>>, timestamp |-> 0,
     cached |-> FALSE, cache_source |-> ""]

\* The result dictionary collect_businesses builds.
SearchResult(source, location, query, category, businesses, t) ==
    [success |-> TRUE, source |-> source, location |-> location,
     query |-> query, category |-> category, count |-> Len(businesses),
     businesses |-> Tag(businesses, source), timestamp |-> t,
     cached |-> FALSE,
     cache_source |-> IF source # "mock" THEN "live_api" ELSE "generated"]

\* adapter_search with a mock adapter that fetches its businesses over the
\* network.
adapter_search_online(name, c, t, cfg, location, query, category, limit, env) ==
    IF name = "foursquare"
    THEN fsq_search(c, t, cfg, location, query, category, 5000, limit,
                    env.net, env.places)
    ELSE [raised |-> FALSE,
          value |-> mock_search(env.seed, query, category, limit),
          cache |-> c,
          events |-> <<Ev("call", "mock", "search", limit, 5000),
                       Ev("network", "mock", "search", limit, 5000)>>]

\* data_source.search_businesses(location, query, category, limit) of the
\* adapter registered under a name; radius keeps its default 5000.
adapter_search(name, c, t, cfg, location, query, category, limit, env) ==
    IF name = "foursquare"
    THEN fsq_search(c, t, cfg, location, query, category, 5000, limit,
                    env.net, env.places)
    ELSE [raised |-> FALSE,
          value |-> mock_search(env.seed, query, category, limit),
          cache |-> c,
          events |-> <<Ev("call", "mock", "search", limit, 5000)>>]

\* collect_businesses answering a source it does not know with mock data
\* instead of raising ValueError.
collect_businesses_lenient(c, t, cfg, location, source, query, category, limit, env) ==
    LET src == IF source = "auto" THEN get_primary_source(cfg) ELSE source
        use == IF src \in Sources(cfg) THEN src ELSE "mock"
        r == adapter_search(use, c, t, cfg, location, query, category,
                            limit, env)
    IN  IF ~r.raised
        THEN [raised |-> FALSE,
              result |-> SearchResult(use, location, query, category,
                                      r.value, t),
              cache |-> r.cache, events |-> r.events]
        ELSE IF use # "mock" /\ "mock" \in Sources(cfg)
        THEN LET m == adapter_search("mock", r.cache, t, cfg, location,
                                     query, category, limit, env)
             IN  [raised |-> m.raised,
                  result |-> IF m.raised THEN NoResult
                             ELSE SearchResult("mock", location, query,
                                               category, m.value, t),
                  cache |-> m.cache,
                  events |-> r.events
                             \o <<Ev("fallback", use, "search", limit, 0)>>
                             \o m.events]
        ELSE [raised |-> TRUE, result |-> NoResult, cache |-> r.cache,
              events |-> r.events]

\* collect_businesses trying the failed provider a second time before it
\* falls back to mock data.
collect_businesses_retry(c, t, cfg, location, source, query, category, limit, env) ==
    LET src == IF source = "auto" THEN get_primary_source(cfg) ELSE source
    IN  IF src \notin Sources(cfg)
        THEN [raised |-> TRUE, result |-> NoResult, cache |-> c,
              events |-> <<>>]
        ELSE
        LET r == adapter_search(src, c, t, cfg, location, query, category,
                                limit, env)
        IN  IF ~r.raised
            THEN [raised |-> FALSE,
                  result |-> SearchResult(src, location, query, category,
                                          r.value, t),
                  cache |-> r.cache, events |-> r.events]
            ELSE IF src # "mock" /\ "mock" \in Sources(cfg)
            THEN LET m == adapter_search("mock", r.cache, t, cfg, location,
                                         query, category, limit, env)
                 IN  [raised |-> m.raised,
                      result |-> IF m.raised THEN NoResult
                                 ELSE SearchResult("mock", location, query,
                                                   category, m.value, t),
                      cache |-> m.cache,
                      events |-> r.events \o r.events
                                 \o <<Ev("fallback", src, "search", limit, 0)>>
                                 \o m.events]
            ELSE [raised |-> TRUE, result |-> NoResult, cache |-> r.cache,
                  events |-> r.events]

\* collect_businesses without its except branch: the exception of the
\* provider is raised to the caller.
collect_businesses_reraise(c, t, cfg, location, source, query, category, limit, env) ==
    LET src == IF source = "auto" THEN get_primary_source(cfg) ELSE source
    IN  IF src \notin Sources(cfg)
        THEN [raised |-> TRUE, result |-> NoResult, cache |-> c,
              events |-> <<>>]
        ELSE
        LET r == adapter_search(src, c, t, cfg, location, query, category,
                                limit, env)
        IN  IF ~r.raised
            THEN [raised |-> FALSE,
                  result |-> SearchResult(src, location, query, category,
                                          r.value, t),
                  cache |-> r.cache, events |-> r.events]
            ELSE [raised |-> TRUE, result |-> NoResult, cache |-> r.cache,
                  events |-> r.events]

\* DataCollector.collect_businesses, with the recursive call it makes to
\* fall back to mock data.
collect_businesses(c, t, cfg, location, source, query, category, limit, env) ==
    LET src == IF source = "auto" THEN get_primary_source(cfg) ELSE source
    IN  IF src \notin Sources(cfg)
        THEN [raised |-> TRUE, result |-> NoResult, cache |-> c,
              events |-> <<>>]
        ELSE
        LET r == adapter_search(src, c, t, cfg, location, query, category,
                                limit, env)
        IN  IF ~r.raised
            THEN [raised |-> FALSE,
                  result |-> SearchResult(src, location, query, category,
                                          r.value, t),
                  cache |-> r.cache, events |-> r.events]
            ELSE IF src # "mock" /\ "mock" \in Sources(cfg)
            THEN LET m == adapter_search("mock", r.cache, t, cfg, location,
                                         query, category, limit, env)
                 IN  [raised |-> m.raised,
                      result |-> IF m.raised THEN NoResult
                                 ELSE SearchResult("mock", location, query,
                                                   category, m.value, t),
                      cache |-> m.cache,
                      events |-> r.events
                                 \o <<Ev("fallback", src, "search", limit, 0)>>
                                 \o m.events]
            ELSE [raised |-> TRUE, result |-> NoResult, cache |-> r.cache,
                  events |-> r.events]

\* Mutant: a failing adapter is answered with the mock adapter's reviews.
get_business_reviews_fallback(c, t, cfg, business_id, source, limit, env) ==
    IF source \notin Sources(cfg)
    THEN [value |-> <<>>, cache |-> c, events |-> <<>>]
    ELSE IF source = "foursquare"
    THEN LET r == fsq_reviews(c, t, cfg, business_id, limit, env.net,
                              env.tips)
         IN  IF r.raised
             THEN [value |-> Tag(mock_reviews(business_id, limit), "mock"),
                   cache |-> r.cache,
                   events |-> Append(r.events,
                                     Ev("call", "mock", "reviews", limit, 0))]
             ELSE [value |-> Tag(r.value, source), cache |-> r.cache,
                   events |-> r.events]
    ELSE [value |-> Tag(mock_reviews(business_id, limit), source),
          cache |-> c,
          events |-> <<Ev("call", "mock", "reviews", limit, 0)>>]

\* DataCollector.get_business_reviews
get_business_reviews(c, t, cfg, business_id, source, limit, env) ==
    IF source \notin Sources(cfg)
    THEN [value |-> <<>>, cache |-> c, events |-> <<>>]
    ELSE IF source = "foursquare"
    THEN LET r == fsq_reviews(c, t, cfg, business_id, limit, env.net,
                              env.tips)
         IN  [value |-> IF r.raised THEN <<>> ELSE Tag(r.value, source),
              cache |-> r.cache, events |-> r.events]
    ELSE [value |-> Tag(mock_reviews(business_id, limit), source),
          cache |-> c,
          events |-> <<Ev("call", "mock", "reviews", limit, 0)>>]

\* DataCollector.get_business_details: None for a source that is not
\* registered and for an adapter that raises; details that are not empty
\* are tagged with the source.
get_business_details(c, t, cfg, business_id, source, env) ==
    IF source \notin Sources(cfg)
    THEN [value |-> <<>>, cache |-> c, events |-> <<>>]
    ELSE IF source = "foursquare"
    THEN LET r == fsq_details(c, t, cfg, business_id, env.net, env.place,
                              env.photos)
         IN  [value |-> IF r.raised THEN <<>> ELSE Tag(r.value, source),
              cache |-> r.cache, events |-> r.events]
    ELSE [value |-> Tag(mock_details(env.seed, business_id), source),
          cache |-> c,
          events |-> <<Ev("call", "mock", "details", 0, 0)>>]

\* DataCollector.get_categories: an exception of the adapter propagates.
get_categories(c, t, cfg, source, env) ==
    LET src == IF source = "auto" THEN get_primary_source(cfg) ELSE source
    IN  IF src \notin Sources(cfg)
        THEN [raised |-> FALSE, value |-> <<>>, cache |-> c,
              events |-> <<>>]
        ELSE IF src = "foursquare"
        THEN fsq_categories(c, t, cfg, env.net, env.categories)
        ELSE [raised |-> FALSE, value |-> mock_categories, cache |-> c,
              events |-> <<Ev("call", "mock", "categories", 0, 0)>>]

RECURSIVE SumTo(_, _, _)
\* The sum of one field over the first n businesses of a list.
SumTo(items, field, n) ==
    IF n = 0 THEN 0 ELSE items[n][field] + SumTo(items, field, n - 1)

\* sum(...) of one field over a list of businesses
SumOf(items, field) == SumTo(items, field, Len(items))

\* round(a / b): the quotient rounded to the nearest integer.
RoundDiv(a, b) == (2 * a + b) \div (2 * b)

\* "if business_name.lower() not in business['name'].lower()" over the
\* businesses found, then competitors[:limit].
Competitors(found, business_name, limit) ==
    Slice(SelectSeq(found, LAMBDA b :
              ~Contains(Lower(business_name), Lower(b.name))), limit)

\* [b.get('rating', 0) for b in competitors if b.get('rating')]
Rated(competitors) == SelectSeq(competitors, LAMBDA b : b.rating # 0)

\* Ratings are in tenths, so the average rating rounded to two places is
\* reported in hundredths.
AvgRating(competitors, rated) ==
    IF competitors # <<>> /\ rated # <<>>
    THEN RoundDiv(10 * SumOf(rated, "rating"), Len(rated))
    ELSE 0

AvgReviews(competitors) ==
    IF competitors # <<>>
    THEN RoundDiv(SumOf(competitors, "tip_count"), Len(competitors))
    ELSE 0

\* Analysis reporting the number of search results as competitors_count.
Analysis_counts_found(s, competitors) ==
    [raised |-> \/ s.raised
                \/ \E i \in 1..Len(s.result.businesses) :
                       s.result.businesses[i].name = <<>>,
     source |-> s.result.source,
     found |-> s.result.businesses,
     competitors |-> competitors,
     competitors_count |-> Len(s.result.businesses),
     avg_rating |-> AvgRating(competitors, Rated(competitors)),
     avg_reviews |-> AvgReviews(competitors),
     cache |-> s.cache, events |-> s.events]

\* The dictionary collect_competitors returns for the search results s and
\* the competitors kept.  A business without a name raises KeyError.
Analysis(s, competitors) ==
    [raised |-> \/ s.raised
                \/ \E i \in 1..Len(s.result.businesses) :
                       s.result.businesses[i].name = <<>>,
     source |-> s.result.source,
     found |-> s.result.businesses,
     competitors |-> competitors,
     competitors_count |-> Len(competitors),
     avg_rating |-> AvgRating(competitors, Rated(competitors)),
     avg_reviews |-> AvgReviews(competitors),
     cache |-> s.cache, events |-> s.events]

\* collect_competitors after its search.
CompetitorsAmong(s, business_name, limit) ==
    Analysis(s, Competitors(s.result.businesses, business_name, limit))

\* DataCollector.collect_competitors
collect_competitors(c, t, cfg, business_name, location, category, limit, env) ==
    CompetitorsAmong(
        collect_businesses(c, t, cfg, location, "auto", category, <<>>,
                           limit * 2, env),
        business_name, limit)


(***************************************************************************)
(* Views                                                                   *)
(***************************************************************************)

\* The values a request carries.
SourceNames == {"auto", "foursquare", "mock", "bogus"}
SearchInputs ==
    { [location |-> "New York", query |-> <<>>, category |-> <<>>],
      [location |-> "40.7,-74.0", query |-> StrPizza, category |-> StrPizzaPlace] }
RawLimits ==
    { [numeric |-> TRUE, raw |-> v] : v \in {-1, 2, 1000} }
        \cup { [numeric |-> FALSE, raw |-> 0] }
BusinessIds == { [prefix |-> "mock_", n |-> 0], [prefix |-> "fsq_", n |-> 1] }
BusinessNames == { <<>>, StrPizza, StrZen }

\* What the provider's network answers with: a list of places, one place
\* and a list of tips.  BrokenPlace and the second tip cannot be formatted;
\* MonksCafePlace carries no rating.
PizzaPalacePlace ==
    [id |-> 101, name |-> StrPizzaPalace, categories |-> {StrPizzaPlace},
     rating |-> 80, tip_count |-> 12, valid |-> TRUE]

BrokenPlace ==
    [id |-> 102, name |-> <<>>, categories |-> {}, rating |-> 0,
     tip_count |-> 0, valid |-> FALSE]

MonksCafePlace ==
    [id |-> 103, name |-> StrMonksCafe, categories |-> {StrDiner},
     rating |-> 0, tip_count |-> 3, valid |-> TRUE]

Places(body) ==
    CASE body = 1 -> <<>>
      [] body = 2 -> <<PizzaPalacePlace, MonksCafePlace>>
      [] OTHER -> <<PizzaPalacePlace, BrokenPlace, MonksCafePlace>>

Place(body) ==
    CASE body = 1 -> PizzaPalacePlace
      [] body = 2 -> MonksCafePlace
      [] OTHER -> BrokenPlace

\* The category list of the provider.
Categories(body) ==
    IF body = 1 THEN <<>>
    ELSE <<[id |-> 301, name |-> StrPizzaPlace],
           [id |-> 302, name |-> StrDiner]>>

Tips(body) ==
    LET t1 == [id |-> 201, valid |-> TRUE]
        t2 == [id |-> 202, valid |-> FALSE]
    IN  CASE body = 1 -> <<>>
          [] body = 2 -> <<t1, t1>>
          [] OTHER -> <<t1, t2>>

\* The call succeeds, raises a requests.RequestException, or returns a body
\* that is not the expected JSON.
NetOutcomes == {"ok", "http_error", "bad_body"}

\* How many photos the photos endpoint answers with.
PhotoAnswers == {0, MaxPhotos}

\* The photos answer varies where it shows: with the place that can be
\* formatted and is rated.
Envs ==
    { [net |-> "ok", places |-> Places(b), place |-> Place(b),
       tips |-> Tips(b), categories |-> Categories(b), seed |-> sd,
       photos |-> 0] :
        b \in 1..3, sd \in MockSeeds }
    \cup { [net |-> "ok", places |-> Places(1), place |-> Place(1),
            tips |-> Tips(1), categories |-> Categories(1), seed |-> sd,
            photos |-> MaxPhotos] :
        sd \in MockSeeds }
    \cup { [net |-> n, places |-> <<>>, place |-> BrokenPlace,
            tips |-> <<>>, categories |-> <<>>, seed |-> sd,
            photos |-> 0] :
        n \in NetOutcomes \ {"ok"}, sd \in MockSeeds }

\* Response({'error': str(e), 'success': False}, status=500)
ErrorResponse(view, status) ==
    [NoResponse EXCEPT !.view = view, !.status = status]

\* BusinessSearchView.get without "limit = min(max(limit, 1), 50)".
search_view_unclamped(c, t, cfg, inp, source, raw, env) ==
    IF ~raw.numeric
    THEN [response |-> ErrorResponse("search", 500), cache |-> c,
          events |-> <<>>]
    ELSE
    LET r == collect_businesses(c, t, cfg, inp.location, source, inp.query,
                                inp.category, raw.raw, env)
    IN  [response |->
            IF r.raised THEN ErrorResponse("search", 500)
            ELSE [view |-> "search", status |-> 200,
                  success |-> r.result.success, source |-> r.result.source,
                  location |-> r.result.location, query |-> r.result.query,
                  category |-> r.result.category, count |-> r.result.count,
                  items |-> r.result.businesses,
                  timestamp |-> r.result.timestamp,
                  cached |-> r.result.cached,
                  cache_source |-> r.result.cache_source,
                  avg_rating |-> 0, avg_reviews |-> 0, found |-> <<>>],
         cache |-> r.cache, events |-> r.events]

\* BusinessSearchView.get
search_view(c, t, cfg, inp, source, raw, env) ==
    IF ~raw.numeric
    THEN [response |-> ErrorResponse("search", 500), cache |-> c,
          events |-> <<>>]
    ELSE
    LET limit == Min(Max(raw.raw, 1), 50)
        r == collect_businesses(c, t, cfg, inp.location, source, inp.query,
                                inp.category, limit, env)
    IN  [response |->
            IF r.raised THEN ErrorResponse("search", 500)
            ELSE [view |-> "search", status |-> 200,
                  success |-> r.result.success, source |-> r.result.source,
                  location |-> r.result.location, query |-> r.result.query,
                  category |-> r.result.category, count |-> r.result.count,
                  items |-> r.result.businesses,
                  timestamp |-> r.result.timestamp,
                  cached |-> r.result.cached,
                  cache_source |-> r.result.cache_source,
                  avg_rating |-> 0, avg_reviews |-> 0, found |-> <<>>],
         cache |-> r.cache, events |-> r.events]

\* business_id.startswith('mock_')
IsMockId(business_id) == business_id.prefix = "mock_"

\* BusinessDetailView.get: 404 when the collector has no details, or empty
\* ones.
details_view(c, t, cfg, business_id, source, env) ==
    LET src == IF source = "auto"
               THEN (IF IsMockId(business_id) THEN "mock"
                     ELSE get_primary_source(cfg))
               ELSE source
        r == get_business_details(c, t, cfg, business_id, src, env)
    IN  [response |->
            IF r.value # <<>>
            THEN [NoResponse EXCEPT !.view = "details", !.status = 200,
                                    !.success = TRUE, !.source = src,
                                    !.count = Len(r.value),
                                    !.items = r.value]
            ELSE [NoResponse EXCEPT !.view = "details", !.status = 404,
                                    !.source = src],
         cache |-> r.cache, events |-> r.events]

\* CategoriesView.get: the response names the source as it was asked for.
categories_view(c, t, cfg, source, env) ==
    LET r == get_categories(c, t, cfg, source, env)
    IN  [response |->
            IF r.raised THEN ErrorResponse("categories", 500)
            ELSE [NoResponse EXCEPT !.view = "categories", !.status = 200,
                                    !.success = TRUE, !.source = source,
                                    !.count = Len(r.value),
                                    !.items = r.value],
         cache |-> r.cache, events |-> r.events]

\* BusinessReviewsView.get
reviews_view(c, t, cfg, business_id, source, raw, env) ==
    IF ~raw.numeric
    THEN [response |-> ErrorResponse("reviews", 500), cache |-> c,
          events |-> <<>>]
    ELSE
    LET limit == raw.raw
        src == IF source = "auto"
               THEN (IF IsMockId(business_id) THEN "mock"
                     ELSE get_primary_source(cfg))
               ELSE source
        r == get_business_reviews(c, t, cfg, business_id, src, limit, env)
    IN  [response |->
            [NoResponse EXCEPT !.view = "reviews", !.status = 200,
                               !.success = TRUE, !.source = src,
                               !.count = Len(r.value), !.items = r.value],
         cache |-> r.cache, events |-> r.events]

\* The Response of CompetitorAnalysisView.get for the analysis r.
CompetitorResponse(r) ==
    [response |->
        IF r.raised THEN ErrorResponse("competitors", 500)
        ELSE [NoResponse EXCEPT !.view = "competitors", !.status = 200,
                                !.success = TRUE, !.source = r.source,
                                !.count = r.competitors_count,
                                !.items = r.competitors,
                                !.avg_rating = r.avg_rating,
                                !.avg_reviews = r.avg_reviews,
                                !.found = r.found],
     cache |-> r.cache, events |-> r.events]

\* CompetitorAnalysisView.get
competitors_view(c, t, cfg, business_name, inp, raw, env) ==
    IF ~raw.numeric
    THEN [response |-> ErrorResponse("competitors", 500), cache |-> c,
          events |-> <<>>]
    ELSE IF business_name = <<>>
    THEN [response |-> ErrorResponse("competitors", 400), cache |-> c,
          events |-> <<>>]
    ELSE CompetitorResponse(
             collect_competitors(c, t, cfg, business_name, inp.location,
                                 inp.category, raw.raw, env))

\* The worker is between two requests.
Idle == response.view = "none"

\* The worker serves a request: what the request leaves behind.
Served(r, source, name, raw, env) ==
    /\ Idle
    /\ nRequests < MaxRequests
    /\ response' = r.response
    /\ cache' = r.cache
    /\ events' = r.events
    /\ asked' = [numeric |-> raw.numeric, raw |-> raw.raw, net |-> env.net,
                 source |-> source, name |-> name, places |-> env.places,
                 tips |-> env.tips, place |-> env.place]
    /\ nRequests' = nRequests + 1
    /\ UNCHANGED <<budgetVars, rateVars, now, settings, workers,
                   providerVars>>

\* GET /api/v1/ingestion/search/
BusinessSearch ==
    \E inp \in SearchInputs, source \in SourceNames, raw \in RawLimits,
       env \in Envs :
        Served(search_view(cache, now, settings, inp, source, raw, env),
               source, <<>>, raw, env)

\* The detail view takes no limit.
NoLimit == [numeric |-> FALSE, raw |-> 0]

\* GET /api/v1/ingestion/business/{business_id}/
BusinessDetail ==
    \E id \in BusinessIds, source \in SourceNames, env \in Envs :
        Served(details_view(cache, now, settings, id, source, env),
               source, <<>>, NoLimit, env)

\* GET /api/v1/ingestion/business/{business_id}/reviews/
BusinessReviews ==
    \E id \in BusinessIds, source \in SourceNames, raw \in RawLimits,
       env \in Envs :
        Served(reviews_view(cache, now, settings, id, source, raw, env),
               source, <<>>, raw, env)

\* GET /api/v1/ingestion/competitors/
CompetitorAnalysis ==
    \E name \in BusinessNames, inp \in SearchInputs, raw \in RawLimits,
       env \in Envs :
        Served(competitors_view(cache, now, settings, name, inp, raw, env),
               "auto", name, raw, env)

\* "return Response(...)": the response is sent and the worker is free for
\* the next request; only the cache outlives the request.
Sent ==
    /\ ~Idle
    /\ nRequests < MaxRequests
    /\ response' = NoResponse
    /\ events' = <<>>
    /\ asked' = NoAsk
    /\ UNCHANGED <<budgetVars, rateVars, now, settings, cache, nRequests,
                   workers,
                   providerVars>>

\* Time passes between requests.
Elapse(dt) ==
    /\ Idle
    /\ now + dt <= MaxClock
    /\ now' = now + dt
    /\ UNCHANGED <<budgetVars, rateVars, collectorVars, workers,
                   providerVars>>

CollectorNext ==
    \/ BusinessSearch
    \/ BusinessDetail
    \/ BusinessReviews
    \/ CompetitorAnalysis
    \/ Sent
    \/ \E dt \in {SearchTTL - 1, SearchTTL} : Elapse(dt)

\* A process started with any Foursquare configuration.
InitCollector ==
    /\ BudgetInit /\ RateInit /\ CollectorInit
    /\ settings \in Configs

SpecCollector == InitCollector /\ [][CollectorNext]_vars

\* The requests that go through the cache: Foursquare is asked, by name,
\* for one search, one business, one list of tips and the categories.
CacheInput == [location |-> "New York", query |-> <<>>, category |-> <<>>]
CacheId == [prefix |-> "fsq_", n |-> 1]
CacheLimit == [numeric |-> TRUE, raw |-> 2]

CachedSearch ==
    \E env \in Envs :
        Served(search_view(cache, now, settings, CacheInput, "foursquare",
                           CacheLimit, env),
               "foursquare", <<>>, CacheLimit, env)

CachedDetails ==
    \E env \in Envs :
        Served(details_view(cache, now, settings, CacheId, "foursquare",
                            env),
               "foursquare", <<>>, NoLimit, env)

CachedReviews ==
    \E env \in Envs :
        Served(reviews_view(cache, now, settings, CacheId, "foursquare",
                            CacheLimit, env),
               "foursquare", <<>>, CacheLimit, env)

\* GET /api/v1/ingestion/categories/
CachedCategories ==
    \E env \in Envs :
        Served(categories_view(cache, now, settings, "foursquare", env),
               "foursquare", <<>>, NoLimit, env)

\* The timeout the adapter stores each kind of entry with.
TTLOf(kind) ==
    CASE kind = "foursquare_search" -> SearchTTL
      [] kind = "foursquare_details" -> DetailsTTL
      [] kind = "foursquare_tips" -> TipsTTL
      [] OTHER -> CategoriesTTL

\* Time passes, once: up to a second before a timeout, or up to it.
Ages ==
    UNION { {TTLOf(k) - 1, TTLOf(k)} :
            k \in {"foursquare_search", "foursquare_details",
                    "foursquare_tips", "foursquare_categories"} }

Age(dt) ==
    /\ Idle
    /\ now = 0
    /\ now' = dt
    /\ UNCHANGED <<budgetVars, rateVars, collectorVars, workers,
                   providerVars>>

CacheNext ==
    \/ CachedSearch
    \/ CachedDetails
    \/ CachedReviews
    \/ CachedCategories
    \/ Sent
    \/ \E dt \in Ages : Age(dt)

\* Requests served by Foursquare through the cache, before and after a
\* timeout.
SpecCache == Init /\ [][CacheNext]_vars

\* The radius a caller of an adapter may pass: below the default, the
\* default, and beyond every provider's maximum.
Radii == {1000, 5000, 200000}

\* The limits a caller of an adapter asks for.
AdapterLimits == {2, 3}

\* What a direct call of an adapter's search_businesses leaves behind: the
\* businesses returned (or the exception), with the parameters of the call.
AdapterResponse(adapter, inp, r, t) ==
    [NoResponse EXCEPT !.view = "adapter_search",
                       !.status = IF r.raised THEN 500 ELSE 200,
                       !.success = ~r.raised, !.source = adapter,
                       !.location = inp.location, !.query = inp.query,
                       !.category = inp.category, !.count = Len(r.value),
                       !.items = r.value, !.timestamp = t]

\* A caller holding a FoursquareSource calls
\* search_businesses(location, query, category, radius, limit).
FoursquareSearch ==
    \E inp \in SearchInputs, radius \in Radii, limit \in AdapterLimits,
       env \in Envs :
        LET r == fsq_search(cache, now, settings, inp.location, inp.query,
                            inp.category, radius, limit, env.net, env.places)
        IN  /\ nRequests < MaxRequests
            /\ response' = AdapterResponse("foursquare", inp, r, now)
            /\ cache' = r.cache
            /\ events' = r.events
            /\ asked' = [NoAsk EXCEPT !.raw = limit, !.net = env.net,
                                      !.source = "foursquare",
                                      !.places = env.places]
            /\ nRequests' = nRequests + 1
            /\ UNCHANGED <<budgetVars, rateVars, now, settings, workers,
                           providerVars>>

\* Time passes between two calls of an adapter.
Pass(dt) ==
    /\ now + dt <= MaxClock
    /\ now' = now + dt
    /\ UNCHANGED <<budgetVars, rateVars, collectorVars, workers,
                   providerVars>>

\* A governed adapter is constructed and searched: what the call leaves in
\* the tracker, its file, the limiter and the log.
GovernedSearched(api_name, inp, raw, env, r) ==
    /\ nRequests < MaxRequests
    /\ nRecords < MaxRecords
    /\ response' = AdapterResponse(api_name, inp, r, now)
    /\ events' = r.events
    /\ asked' = [NoAsk EXCEPT !.raw = raw, !.net = env.net,
                              !.source = api_name, !.places = env.places]
    /\ nRequests' = nRequests + 1
    /\ budget_data' = r.bd
    /\ budget_file' = r.file
    /\ file_exists' = TRUE
    /\ sumCosts' = sumCosts + r.cost
    /\ logged' = logged \o r.fired
    /\ recorded' = IF r.recorded
                   THEN [recorded EXCEPT ![today][api_name] = @ + 1]
                   ELSE recorded
    /\ nRecords' = IF r.recorded THEN nRecords + 1 ELSE nRecords
    /\ lastCheck' = IF r.checked /\ ~r.recorded
                    THEN [api |-> api_name, endpoint |-> "search",
                          ok |-> r.admitted, day |-> today]
                    ELSE NoCheck
    /\ lastOp' = IF r.recorded THEN "record_request"
                 ELSE IF r.checked THEN "can_make_request" ELSE "restart"
    /\ request_times' = IF r.admitted THEN r.gate.times ELSE <<>>
    /\ admissions' = admissions
    /\ lastWait' = IF r.admitted
                   THEN [called |-> TRUE, at |-> now, before |-> <<>>,
                         slept |-> r.gate.slept, error |-> r.gate.error]
                   ELSE lastWait
    /\ UNCHANGED <<today, gated, now, settings, cache, workers,
                   providerVars>>

\* GooglePlacesSource().search_businesses(location, query, radius)
GooglePlacesSearch ==
    \E inp \in SearchInputs, radius \in Radii, env \in Envs :
        GovernedSearched("google_places", inp, 0, env,
            google_search(settings, file_exists, budget_file, now, today,
                          radius, env.net, env.places))

\* YelpSource().search_businesses(location, term, categories, radius, limit)
YelpSearch ==
    \E inp \in SearchInputs, radius \in Radii, limit \in AdapterLimits,
       env \in Envs :
        GovernedSearched("yelp", inp, limit, env,
            yelp_search(settings, file_exists, budget_file, now, today,
                        radius, limit, env.net, env.places))

AdaptersNext ==
    \/ FoursquareSearch
    \/ GooglePlacesSearch
    \/ YelpSearch
    \/ \E dt \in {SearchTTL - 1, SearchTTL} : Pass(dt)

\* A process that holds credentials for every provider.
AdaptersInit ==
    /\ BudgetInit /\ RateInit /\ CollectorInit
    /\ settings = [client_id |-> "real-id", client_secret |-> TRUE,
                   api_key |-> TRUE, google_places_api_key |-> "real-key",
                   yelp_api_key |-> "real-key"]

\* The adapters called directly, as the DataSource interface allows, by a
\* process that holds credentials for them.
SpecAdapters == AdaptersInit /\ [][AdaptersNext]_vars

\* What the provider's network does to a call of an adapter the process
\* holds: a good answer listing two places, or a failing request.
ProviderEnvs ==
    { e \in Envs : e.net \in {"ok", "http_error"} /\ e.photos = 0
                    /\ e.seed = 0 /\ e.places \in {<<>>, Places(1)} }

\* search_businesses of an adapter the process holds, on the adapter's own
\* BudgetTracker and RateLimiter; the trackers of all adapters write the
\* one budget file.  The caller is suspended while the rate gate sleeps.
HeldSearched(api_name, raw, env, r) ==
    /\ now <= MaxTime
    /\ nRecords < MaxRecords
    /\ nRequests < MaxCalls
    /\ nRequests' = nRequests + 1
    /\ response' = AdapterResponse(api_name, CacheInput, r, now)
    /\ events' = r.events
    /\ asked' = [NoAsk EXCEPT !.raw = raw, !.net = env.net,
                              !.source = api_name, !.places = env.places]
    /\ trackers' = [trackers EXCEPT ![api_name] = r.bd]
    /\ budget_file' = IF r.recorded THEN r.file ELSE budget_file
    /\ sumCosts' = sumCosts + r.cost
    /\ logged' = logged \o r.fired
    /\ recorded' = IF r.recorded
                   THEN [recorded EXCEPT ![today][api_name] = @ + 1]
                   ELSE recorded
    /\ answered' = IF r.admitted /\ env.net # "http_error"
                   THEN [answered EXCEPT ![today][api_name] = @ + 1]
                   ELSE answered
    /\ nRecords' = IF r.recorded THEN nRecords + 1 ELSE nRecords
    /\ limiters' = IF r.admitted
                   THEN [limiters EXCEPT ![api_name] = r.gate.times]
                   ELSE limiters
    /\ now' = IF r.admitted THEN now + r.gate.slept ELSE now
    /\ lastWait' = IF r.admitted
                   THEN [called |-> TRUE, at |-> now,
                         before |-> limiters[api_name],
                         slept |-> r.gate.slept, error |-> r.gate.error]
                   ELSE lastWait
    /\ UNCHANGED <<budget_data, file_exists, today, lastCheck, lastOp, gated,
                   request_times, admissions, settings, cache, workers>>

\* The GooglePlacesSource the process holds is searched.
HeldGooglePlacesSearch ==
    \E env \in ProviderEnvs :
        HeldSearched("google_places", 0, env,
            governed_call("google_places", trackers["google_places"],
                          limiters["google_places"], now, today, 1000, 0, 10,
                          env.net, env.places))

\* The YelpSource the process holds is searched.
HeldYelpSearch ==
    \E env \in ProviderEnvs :
        HeldSearched("yelp", 20, env,
            governed_call("yelp", trackers["yelp"], limiters["yelp"], now,
                          today, 1000, 20, Len(env.places), env.net,
                          env.places))

ProvidersNext ==
    \/ HeldGooglePlacesSearch
    \/ HeldYelpSearch
    \/ \E dt \in {Window \div 3, Window - 1} : Tick(dt)
    \/ NextDay

\* One process holds a GooglePlacesSource and a YelpSource, each with the
\* BudgetTracker and the RateLimiter its constructor made, and calls them
\* in any order.
SpecProviders == AdaptersInit /\ [][ProvidersNext]_vars

\* GET /api/v1/ingestion/search/?source=google_places (or yelp): a search
\* that names a provider the budget tracker governs.
ProviderSearch ==
    \E inp \in SearchInputs, source \in Apis, raw \in RawLimits,
       env \in Envs :
        Served(search_view(cache, now, settings, inp, source, raw, env),
               source, <<>>, raw, env)

GovernedNext ==
    \/ \E c \in Calls : CanMakeRequest(c[1], c[2])
    \/ \E c \in Calls : RecordRequest(c[1], c[2])
    \/ ProviderSearch

\* Requests are recorded against the budget tracker, and a search names one
\* of the providers it governs.
SpecGoverned == Init /\ [][GovernedNext]_vars


(***************************************************************************)
(* Claims about the Budget Governor, checked under SpecBudget              *)
(***************************************************************************)

\* C2: while every record_request directly followed a can_make_request
\* that answered True on the same tracker, total_cost never exceeds the
\* cost ceiling and no provider's count of any date exceeds its daily cap.
C2_GatedStaysWithinBudget ==
    gated =>
        /\ budget_data.total_cost <= MaxBudget
        /\ \A d \in Days : \A a \in Apis :
               Count(budget_data, d, a) <= daily_limits(a)

\* C2 witness: a gated run that exhausted Google's daily cap and left less
\* than the default cost below the ceiling.
C2_Witness ==
    /\ gated
    /\ Count(budget_data, today, "google_places") = GoogleDailyLimit
    /\ budget_data.total_cost + 10 > MaxBudget

\* C4: after any sequence of record_request calls total_cost is the sum of
\* the costs they returned and every date's per-provider count is the number
\* of calls recorded for it; the persisted store says the same, and so does
\* a tracker constructed from the store afterwards.
C4_TotalIsSumOfCosts ==
    /\ budget_data.total_cost = sumCosts
    /\ \A d \in Days : \A a \in Apis : Count(budget_data, d, a) = recorded[d][a]
    /\ file_exists
    /\ budget_file.total_cost = sumCosts
    /\ \A d \in Days : \A a \in Apis : Count(budget_file, d, a) = recorded[d][a]

\* C4 witness: a tracker just constructed from the store after requests with
\* a positive total cost on both dates.
C4_Witness ==
    /\ lastOp = "restart"
    /\ sumCosts > 0
    /\ \E a \in Apis : recorded[1][a] > 0
    /\ \E a \in Apis : recorded[2][a] > 0

\* C5: a can_make_request call answers False once the provider's daily cap
\* of requests has been recorded on the date of the call, and answers True
\* whenever the date's count is below the cap and total_cost plus the
\* operation's cost does not exceed the ceiling.
C5_CapDecidesAdmission ==
    lastOp = "can_make_request" =>
        LET c == lastCheck
            cap == daily_limits(c.api)
        IN  /\ recorded[c.day][c.api] >= cap => ~c.ok
            /\ ( /\ Count(budget_data, c.day, c.api) < cap
                 /\ budget_data.total_cost
                       + cost_per_request(c.api, c.endpoint) <= MaxBudget )
               => c.ok

\* C5 witness: Yelp's cap is exhausted by free requests and the next check
\* is refused although the cost ceiling is far away.
C5_Witness ==
    /\ lastOp = "can_make_request"
    /\ lastCheck.api = "yelp"
    /\ ~lastCheck.ok
    /\ recorded[lastCheck.day]["yelp"] = YelpDailyLimit
    /\ budget_data.total_cost = 0

(***************************************************************************)
(* Claims about the Rate Governor, checked under SpecRate                  *)
(***************************************************************************)

\* C6: the recorded timestamps never include more than the limit inside any
\* rolling 60-second window.
C6_AtMostLimitPerWindow ==
    \A i \in 1..Len(request_times) :
        Cardinality({ j \in 1..Len(request_times) :
                        /\ request_times[i] <= request_times[j]
                        /\ request_times[j] - request_times[i] < Window })
            <= RequestsPerMinute

\* The entries of the list the latest call found that were younger than 60
\* seconds when it was made.
LiveBefore ==
    { i \in 1..Len(lastWait.before) :
        lastWait.at - lastWait.before[i] < Window }

OldestLive ==
    CHOOSE m \in { lastWait.before[i] : i \in LiveBefore } :
        \A j \in LiveBefore : m <= lastWait.before[j]

\* C7: a call that finds at least the limit of entries younger than 60
\* seconds is suspended for exactly 60 - (now - oldest) seconds, which is
\* never negative; a call that finds fewer is not suspended.
C7_WaitIsSixtyMinusAge ==
    lastWait.called =>
        /\ now >= lastWait.at + lastWait.slept
        /\ IF Cardinality(LiveBefore) >= RequestsPerMinute
           THEN /\ lastWait.slept = Window - (lastWait.at - OldestLive)
                /\ lastWait.slept >= 0
           ELSE lastWait.slept = 0

\* C7 witness: a call found the window full with its oldest entry some
\* seconds old, and slept for the rest of that entry's minute.
C7_Witness ==
    /\ lastWait.called
    /\ Cardinality(LiveBefore) >= RequestsPerMinute
    /\ lastWait.slept > 0
    /\ lastWait.slept < Window
    /\ now = lastWait.at + lastWait.slept

\* C8: every wait_if_needed call returns without an error after at most 60
\* seconds and leaves the pruned list with exactly one timestamp appended.
C8_NeverRejects ==
    lastWait.called =>
        /\ ~lastWait.error
        /\ lastWait.slept \in 0..Window
        /\ Len(request_times) = Cardinality(LiveBefore) + 1
        /\ request_times[Len(request_times)] = lastWait.at

\* C8 witness: a call that found the window full was delayed, then recorded.
C8_Witness ==
    /\ lastWait.called
    /\ Cardinality(LiveBefore) >= RequestsPerMinute
    /\ lastWait.slept > 0
    /\ Len(request_times) > RequestsPerMinute

(***************************************************************************)
(* Claims about the collector and the views                                *)
(***************************************************************************)

\* The last request made the Foursquare adapter's search raise.
SearchRaised ==
    \E i \in 1..Len(events) :
        /\ events[i].ev = "raise"
        /\ events[i].who # "mock"
        /\ events[i].op = "search"

\* C1: when the search call of a provider other than mock raises, whatever
\* the exception, collect_businesses still answers, with success true,
\* source "mock" and every business tagged with data_source "mock".
C1_FailedProviderFallsBackToMock ==
    (response.view \in {"search", "competitors"} /\ SearchRaised)
        => /\ response.status = 200
           /\ response.success
           /\ response.source = "mock"
           /\ \A i \in 1..Len(response.items) :
                  response.items[i].data_source = "mock"

\* A search on Foursquare failed on the network and mock businesses came
\* back.
C1_Witness ==
    /\ response.view = "search"
    /\ SearchRaised
    /\ asked.net # "ok"
    /\ response.source = "mock"
    /\ response.count > 0

\* Network request i of the last operation came after a budget check that
\* passed and a rate admission of the same adapter.
Gated(i) ==
    /\ \E j \in 1..(i - 1) :
           events[j].ev = "budget_ok" /\ events[j].who = events[i].who
    /\ \E j \in 1..(i - 1) :
           events[j].ev = "rate_admit" /\ events[j].who = events[i].who

\* C3: every network call of an adapter other than mock is preceded, in the
\* same operation, by a budget check that returned true and by a rate
\* admission.
C3_NetworkCallsAreGated ==
    \A i \in 1..Len(events) :
        (events[i].ev = "network" /\ events[i].who # "mock") => Gated(i)

\* C9: the limit of every adapter call, whichever operation makes it, lies
\* in [1,50] when the caller supplied an integer.
C9_AdapterLimitInRange ==
    asked.numeric =>
        \A i \in 1..Len(events) :
            events[i].ev = "call" => events[i].limit \in 1..50

\* C10: whatever integer limit the search entry point is given, the limit
\* handed to collect_businesses and on to the adapter's search_businesses,
\* and the one put on the wire, lies in [1,50].
C10_SearchLimitClamped ==
    response.view = "search" =>
        \A i \in 1..Len(events) :
            events[i].ev \in {"call", "network", "fallback"}
                => events[i].limit \in 1..50

\* A search asked for more than 50 results and the adapter was called.
C10_Witness ==
    /\ response.view = "search"
    /\ asked.numeric /\ asked.raw > 50
    /\ \E i \in 1..Len(events) :
           events[i].ev = "call" /\ events[i].limit = 50

\* The step serves a search request that names a source DataCollector has
\* not registered.
UnknownSourceSearch ==
    /\ Idle
    /\ response'.view = "search"
    /\ asked'.numeric
    /\ asked'.source \notin Sources(settings) \cup {"auto"}

\* C11: a search naming a source that is not registered ends in an error
\* before any adapter is invoked: no adapter call, no network request, no
\* mock fallback, and the budget, the rate window and the cache stay as
\* they were.
C11_UnknownSourceIsFatal ==
    [][UnknownSourceSearch =>
          /\ response'.status = 500
          /\ ~response'.success
          /\ events' = <<>>
          /\ UNCHANGED <<budgetVars, rateVars, cache>>]_vars

\* A search for source "bogus" was answered with an error.
C11_Witness ==
    /\ response.view = "search"
    /\ asked.numeric
    /\ asked.source = "bogus"
    /\ response.status = 500

\* The positions of the events of one kind in the latest request, made by
\* the mock adapter (mock = TRUE) or by another adapter.
EventsOf(ev, mock) ==
    { i \in 1..Len(events) :
        events[i].ev = ev /\ ((events[i].who = "mock") = mock) }

\* C12: in one search the provider other than mock is invoked at most once
\* and sends at most one network request (no retry), mock is invoked at most
\* once, and the fallback is taken at most once, only from a failed attempt
\* of a provider other than mock, and is followed by the one mock call.
C12_SingleFallback ==
    response.view \in {"search", "competitors"} =>
        /\ Cardinality(EventsOf("call", FALSE)) <= 1
        /\ Cardinality(EventsOf("network", FALSE)) <= 1
        /\ Cardinality(EventsOf("call", TRUE)) <= 1
        /\ Cardinality(EventsOf("fallback", FALSE)) <= 1
        /\ EventsOf("fallback", TRUE) = {}
        /\ \A i \in EventsOf("fallback", FALSE) :
               /\ \E j \in EventsOf("raise", FALSE) :
                      j < i /\ events[j].who = events[i].who
               /\ \E j \in EventsOf("call", TRUE) : j > i

\* A search fell back: one Foursquare call, one fallback, one mock call.
C12_Witness ==
    /\ response.view = "search"
    /\ Cardinality(EventsOf("call", FALSE)) = 1
    /\ Cardinality(EventsOf("fallback", FALSE)) = 1
    /\ Cardinality(EventsOf("call", TRUE)) = 1
    /\ response.status = 200

\* The responses a search naming source "mock" could give for the
\* parameters of the latest request, at the same time, whatever the mock
\* adapter draws.
DirectMockResponses ==
    { search_view(cache, response.timestamp, settings,
                  [location |-> response.location, query |-> response.query,
                   category |-> response.category],
                  "mock", [numeric |-> TRUE, raw |-> asked.raw],
                  env).response : env \in Envs }

\* C13: a search result served by the mock fallback is told apart, from the
\* result alone, from the result of a search that selected mock directly:
\* no search for source "mock" gives the result the fallback gave.
C13_FallbackIsFlagged ==
    (/\ response.view = "search"
     /\ response.status = 200
     /\ EventsOf("fallback", FALSE) # {})
        => response \notin DirectMockResponses

\* The step serves a search that names a budget-governed provider whose
\* budget check answers False.
ExhaustedProviderSearch ==
    /\ Idle
    /\ response'.view = "search"
    /\ asked'.numeric
    /\ asked'.source \in Apis
    /\ ~can_make_request(budget_data, today, asked'.source, "search").ok

\* C14: when can_make_request(X, "search") answers False for a governed
\* provider X, a search naming X is answered with the mock fallback
\* (source "mock", success true) and sends no network request.
C14_ExhaustedProviderFallsBack ==
    [][ExhaustedProviderSearch =>
          /\ response'.status = 200
          /\ response'.success
          /\ response'.source = "mock"
          /\ \A i \in 1..Len(events') : events'[i].ev # "network"]_vars

\* C15: can_make_request does not mutate state: whatever it answers, the
\* tracker's budget_data (total_cost, daily_usage with its date and provider
\* keys, alerts_sent) and the file are after the call what they were before.
C15_CheckDoesNotMutate ==
    [][lastOp' = "can_make_request" =>
          /\ budget_data' = budget_data
          /\ budget_file' = budget_file]_vars

\* The events of the mock adapter in the latest request.
MockEvents == { i \in 1..Len(events) : events[i].who = "mock" }

\* C16: a request in which the mock adapter is called (search, details or
\* reviews; selected directly or reached by the fallback) leaves the budget
\* state, the budget file and the rate window as they were, and the mock
\* adapter does nothing but answer the call: it makes no budget check, no
\* rate admission and no network request.
C16_MockIsUngoverned ==
    [][(\E i \in 1..Len(events') :
            events'[i].ev = "call" /\ events'[i].who = "mock")
        => /\ budget_data' = budget_data
           /\ budget_file' = budget_file
           /\ request_times' = request_times
           /\ \A i \in 1..Len(events') :
                  events'[i].who = "mock" => events'[i].ev = "call"]_vars

\* The mock adapter has answered a search reached by the fallback, after
\* the provider's request went out on the network.
C16_Witness ==
    /\ response.view = "search"
    /\ response.count > 0
    /\ EventsOf("fallback", FALSE) # {}
    /\ EventsOf("network", FALSE) # {}
    /\ MockEvents # {}
    /\ \A i \in MockEvents : events[i].ev = "call"

\* The providers other than mock the process holds usable credentials for.
Configured ==
    (IF FoursquareConstructs(settings)
        /\ settings.client_id # "your-client-id-here"
     THEN {"foursquare"} ELSE {})
    \cup (IF GooglePlacesConstructs(settings) THEN {"google_places"}
          ELSE {})
    \cup (IF YelpConstructs(settings) THEN {"yelp"} ELSE {})

\* C17: a search for source "auto" first calls a provider the process holds
\* credentials for whenever there is one among Foursquare, Google Places
\* and Yelp; it calls mock, and sends nothing on the network, only when
\* there is none.
C17_AutoPrefersConfiguredProvider ==
    (response.view = "search" /\ asked.source = "auto" /\ events # <<>>)
        => IF Configured # {}
           THEN events[1].ev = "call" /\ events[1].who \in Configured
           ELSE \A i \in 1..Len(events) :
                    events[i].who = "mock" /\ events[i].ev # "network"

\* C18: however the steps of two workers running can_make_request then
\* record_request on one tracker interleave, no provider's daily count
\* exceeds its daily cap and total_cost does not exceed the ceiling.
C18_WorkersStayWithinCaps ==
    /\ budget_data.total_cost <= MaxBudget
    /\ \A d \in Days : \A a \in Apis :
           Count(budget_data, d, a) <= daily_limits(a)
    /\ budget_file.total_cost <= MaxBudget
    /\ \A d \in Days : \A a \in Apis :
           Count(budget_file, d, a) <= daily_limits(a)

\* No entry of a list occurs in it twice.
NoDuplicates(seq) ==
    \A i, j \in 1..Len(seq) : seq[i] = seq[j] => i = j

\* C19: over any sequence of record_request calls, restarts from the file
\* included, alerts_sent holds no alert message twice, no alert message is
\* logged twice, and every alert logged so far is in the alerts_sent of the
\* budget file.
C19_AlertsFireOnce ==
    /\ NoDuplicates(budget_data.alerts_sent)
    /\ NoDuplicates(budget_file.alerts_sent)
    /\ NoDuplicates(logged)
    /\ \A i \in 1..Len(logged) :
           \E j \in 1..Len(budget_file.alerts_sent) :
               budget_file.alerts_sent[j] = logged[i]

\* Google's count reached the alert threshold on both days, the second
\* time in the record_request that just returned, and the message (which
\* does not name the date) was logged once.
C19_Witness ==
    /\ lastOp = "record_request"
    /\ today = 2
    /\ Count(budget_data, 1, "google_places") = GoogleDailyLimit
    /\ Count(budget_data, 2, "google_places") = GoogleDailyLimit
    /\ Cardinality({ i \in 1..Len(logged) :
                        /\ logged[i].kind = "daily"
                        /\ logged[i].api = "google_places"
                        /\ logged[i].count = GoogleDailyLimit }) = 1

\* The search results of the latest competitor analysis whose name does not
\* contain the target name, case-insensitively, in their order.
NonMatching ==
    SelectSeq(response.found,
              LAMBDA b : ~Contains(Lower(asked.name), Lower(b.name)))

\* C20: whatever the target name, the requested limit and the search
\* results, no competitor returned contains the target name
\* (case-insensitively), the competitors are at most limit many, they are
\* the first non-matching search results in their order, and
\* competitors_count is their number.
C20_CompetitorsFilteredAndCapped ==
    (response.view = "competitors" /\ response.status = 200)
        => /\ \A i \in 1..Len(response.items) :
                  ~Contains(Lower(asked.name), Lower(response.items[i].name))
           /\ Len(response.items) <= asked.raw
           /\ Len(response.items) <= Len(NonMatching)
           /\ response.items = SubSeq(NonMatching, 1, Len(response.items))
           /\ response.count = Len(response.items)

\* C21: when no search result is left as a competitor (every result matches
\* the target name, or the search found nothing), the competitor analysis
\* succeeds and reports competitors_count 0, average rating 0 and average
\* reviews 0.
C21_NoCompetitorsMeansZeroes ==
    (/\ response.view = "competitors"
     /\ asked.numeric /\ asked.name # <<>>
     /\ NonMatching = <<>>)
        => /\ response.status = 200
           /\ response.success
           /\ response.count = 0
           /\ response.items = <<>>
           /\ response.avg_rating = 0
           /\ response.avg_reviews = 0

\* The search found businesses and every one of them matched the target.
C21_Witness ==
    /\ response.view = "competitors"
    /\ response.status = 200
    /\ response.found # <<>>
    /\ NonMatching = <<>>
    /\ response.count = 0

\* C22: when competitors are returned, the average rating reported is the
\* sum of the ratings of all returned competitors divided by their number,
\* and the average reviews reported is the sum of their tip counts divided
\* by the same number, which is competitors_count.
C22_AveragesOverAllCompetitors ==
    (response.view = "competitors" /\ response.status = 200
     /\ response.items # <<>>)
        => /\ response.count = Len(response.items)
           /\ response.avg_rating =
                  RoundDiv(10 * SumOf(response.items, "rating"),
                           response.count)
           /\ response.avg_reviews =
                  RoundDiv(SumOf(response.items, "tip_count"),
                           response.count)

\* The latest request was answered from a fresh, well-formed answer of the
\* provider.
FreshProviderAnswer ==
    /\ asked.net = "ok"
    /\ \E i \in 1..Len(events) :
           events[i].ev = "network" /\ events[i].who # "mock"

\* The records of the provider's batch that can be normalized, in order;
\* the batch is the payload cut to the limit the adapter was called with.
Normalizable(payload) ==
    SelectSeq(Slice(payload, events[1].limit), LAMBDA rec : rec.valid)

\* C23: in a search batch and in a tips batch alike, exactly the records
\* whose normalization fails are dropped: every other record of the batch
\* is normalized and returned, in order.
C23_BadRecordIsDropped ==
    (response.view \in {"search", "reviews"} /\ FreshProviderAnswer)
        => LET batch == IF response.view = "search"
                        THEN Normalizable(asked.places)
                        ELSE Normalizable(asked.tips)
           IN  /\ response.status = 200
               /\ response.source # "mock"
               /\ Len(response.items) = Len(batch)
               /\ \A i \in 1..Len(batch) :
                      response.items[i].id = batch[i].id

\* C24: normalizing a provider payload gives the same output whatever the
\* network answers, the cache holds or earlier calls did.  For the details
\* of a place: the details returned from a fresh answer of the provider are
\* those of the payload under every answer of the photos endpoint.
C24_NormalizationIsPure ==
    (/\ response.view = "details" /\ response.status = 200
     /\ FreshProviderAnswer)
        => \A answer \in PhotoAnswers :
               response.items =
                   Tag(format_detailed_business(asked.place, answer),
                       response.source)

\* The parameters of the search the latest adapter call made.
SearchParams(resp, evs) ==
    [location |-> resp.location, query |-> resp.query,
     category |-> resp.category, limit |-> evs[1].limit,
     radius |-> evs[1].radius]

\* C25: a search stored in the cache is handed only to a search with the
\* same location, query, category, radius and limit: when a call is served
\* from the one entry the call before it stored, the two calls have the
\* same parameters.
C25_CacheKeyCoversAllParameters ==
    [][(/\ response'.view = "adapter_search"
        /\ response.view = "adapter_search"
        /\ \E i \in 1..Len(events) : events[i].ev = "cache_set"
        /\ \E i \in 1..Len(events') : events'[i].ev = "cache_hit"
        /\ Cardinality(DOMAIN cache) = 1)
        => SearchParams(response', events') = SearchParams(response, events)
      ]_vars

\* The kind of cache entry an operation of the adapter uses.
KindOfOp(op) ==
    CASE op = "search" -> "foursquare_search"
      [] op = "details" -> "foursquare_details"
      [] op = "reviews" -> "foursquare_tips"
      [] OTHER -> "foursquare_categories"

\* C26: an entry is stored with the timeout of its kind (search 300 s,
\* details 3600 s, tips 1800 s, categories 86400 s); a request is served
\* from the cache only while less than that time has passed since the
\* entry was stored; and an entry is never removed, and is replaced only by
\* the store of a request that the cache did not serve -- because the
\* entry had timed out or held an empty result.
C26_CacheLivesExactlyItsTTL ==
    [][/\ \A i \in 1..Len(events') :
              events'[i].ev = "cache_hit"
                  => \E k \in DOMAIN cache :
                         /\ k.kind = KindOfOp(events'[i].op)
                         /\ now' < cache[k].expires
                         /\ cache'[k] = cache[k]
       /\ \A k \in DOMAIN cache :
              /\ k \in DOMAIN cache'
              /\ cache'[k] # cache[k]
                     => /\ now >= cache[k].expires \/ cache[k].value = <<>>
                        /\ \E i \in 1..Len(events') :
                               /\ events'[i].ev = "cache_set"
                               /\ KindOfOp(events'[i].op) = k.kind
                        /\ \A i \in 1..Len(events') :
                               events'[i].ev # "cache_hit"
       /\ \A k \in DOMAIN cache' :
              (k \notin DOMAIN cache \/ cache'[k] # cache[k])
                  => cache'[k].expires = now + TTLOf(k.kind)
      ]_vars

\* The details of a business were served from the cache one second before
\* their hour was over.
C26_Witness ==
    /\ now = DetailsTTL - 1
    /\ response.view = "details"
    /\ response.status = 200
    /\ \E i \in 1..Len(events) :
           events[i].ev = "cache_hit" /\ events[i].op = "details"


(***************************************************************************)
(* Claims about the adapters' request parameters, checked under            *)
(* SpecAdapters                                                            *)
(***************************************************************************)

\* The requests the last adapter call sent to its provider.
SentRequests == { i \in 1..Len(events) : events[i].ev = "network" }

\* C27: for every radius a caller passes and each adapter (Foursquare,
\* Google Places, Yelp), the radius of the request sent to the provider is
\* at most the provider's maximum; the largest maximum the adapters know
\* is Foursquare's MaxRadius.
C27_RadiusWithinProviderMaximum ==
    \A i \in SentRequests : events[i].radius <= MaxRadius


(***************************************************************************)
(* Claims about the results handed to the caller, checked under            *)
(* SpecCollector                                                           *)
(***************************************************************************)

\* The businesses of the latest answer came out of the response cache: an
\* adapter found them there and asked no provider.
ServedFromCache ==
    /\ \E i \in 1..Len(events) : events[i].ev = "cache_hit"
    /\ \A i \in 1..Len(events) : events[i].ev # "network"

\* C28: every successful search result carries the provider that answered,
\* the location, query and category of the request, a count equal to the
\* number of businesses returned, the time of the answer, and a cache-hit
\* indicator that is true exactly when the businesses were served from the
\* response cache rather than from a fresh provider call.
C28_ResultCarriesMetadata ==
    (response.view = "search" /\ response.status = 200)
        => /\ response.success
           /\ response.source \in Sources(settings)
           /\ asked.source \notin {"auto", response.source}
                  => response.source = "mock"
           /\ \E inp \in SearchInputs :
                  /\ response.location = inp.location
                  /\ response.query = inp.query
                  /\ response.category = inp.category
           /\ response.count = Len(response.items)
           /\ response.timestamp = now
           /\ response.cached <=> ServedFromCache

\* The latest request named a source that is neither "auto" nor the name
\* of any adapter.
UnknownSourceAsked ==
    asked.source \notin {"", "auto", "mock", "foursquare"} \cup Apis

\* C29: a search, a details request or a reviews request that names an
\* unknown source is answered with a failure of its own: never with
\* success, and never with the not-found answer a registered provider
\* gives for a business it does not know.
C29_UnknownSourceIsAFailure ==
    (response.view \in {"search", "details", "reviews"}
     /\ UnknownSourceAsked)
        => /\ ~response.success
           /\ response.status \notin {200, 404}

RefusedSearch ==
    /\ nRequests' = nRequests + 1
    /\ asked'.source \in Apis
    /\ ~can_make_request(trackers[asked'.source], today, asked'.source,
                         "search").ok

\* C31: in the governed adapters the budget check precedes the rate gate: a
\* search whose can_make_request answers False raises, appends no timestamp
\* to the adapter's rate window, waits for no rate limit, sends no network
\* request and records nothing: the counts, the total cost and the budget
\* file stay as they were.
C31_BudgetCheckPrecedesRateGate ==
    [][RefusedSearch =>
          /\ ~response'.success
          /\ limiters' = limiters
          /\ now' = now
          /\ lastWait' = lastWait
          /\ \A i \in 1..Len(events') :
                 events'[i].ev \notin {"rate_admit", "network"}
          /\ budget_file' = budget_file
          /\ recorded' = recorded
          /\ \A a \in Apis :
                 /\ trackers'[a].total_cost = trackers[a].total_cost
                 /\ \A d \in Days :
                        Count(trackers'[a], d, a) = Count(trackers[a], d, a)
          ]_vars

\* C31 witness: the Google Places adapter, its daily cap used up and its
\* rate window holding two calls, refused a search.
C31_Witness ==
    /\ asked.source = "google_places"
    /\ Count(trackers["google_places"], today, "google_places")
           = GoogleDailyLimit
    /\ Len(limiters["google_places"]) = GoogleDailyLimit
    /\ response.status = 500
    /\ Len(events) = 2
    /\ events[2].ev = "raise"


(***************************************************************************)
(* Claims about cached answers, checked under SpecCache                    *)
(***************************************************************************)

\* The step serves a Foursquare search, details or reviews request while
\* the cache holds the entry k that a request of its kind stored less than
\* the timeout ago (the requests of one kind are identical here).
ServedOverLiveEntry(k) ==
    /\ Idle
    /\ response'.view \in {"search", "details", "reviews"}
    /\ asked'.source = "foursquare"
    /\ k.kind = KindOfOp(response'.view)
    /\ now < cache[k].expires

\* C32: after a Foursquare search, details or reviews request stored its
\* result, an identical request within the timeout is answered with the
\* stored result and sends no network request, whatever the stored result
\* is, an empty list included.
C32_StoredResultIsServed ==
    [][\A k \in DOMAIN cache :
           ServedOverLiveEntry(k)
               => /\ \A i \in 1..Len(events') : events'[i].ev # "network"
                  /\ cache'[k] = cache[k]
                  /\ response'.count = Len(cache[k].value)]_vars


(***************************************************************************)
(* Claims about the trackers of several adapters, checked under            *)
(* SpecProviders                                                           *)
(***************************************************************************)

\* C33: the Google Places adapter and the Yelp adapter of one process each
\* hold a BudgetTracker and both write the one budget file; after any
\* interleaving of their record_request calls the file's total_cost is the
\* sum of the costs of all recorded requests and its count of each date and
\* provider is the number of requests recorded for them, and the file's
\* total_cost never decreases.
C33_SharedFileKeepsEveryRecord ==
    [][/\ budget_file'.total_cost = sumCosts'
       /\ \A d \in Days : \A a \in Apis :
              Count(budget_file', d, a) = recorded'[d][a]
       /\ budget_file'.total_cost >= budget_file.total_cost]_vars


(***************************************************************************)
(* Claims about the budget period and the dates, checked under SpecBudget  *)
(***************************************************************************)

\* The cost ceiling refuses the call c = <<provider, operation>>.
OverCeiling(bd, c) ==
    bd.total_cost + cost_per_request(c[1], c[2]) > MaxBudget

\* C34: the refusal by the cost ceiling is permanent: once total_cost plus
\* the cost of a call exceeds the ceiling, it still does after every step
\* (further record_request calls, a change of date, a restart that reloads
\* the file), and can_make_request answers False for that call.
C34_CostRefusalIsPermanent ==
    [][\A c \in Calls :
           OverCeiling(budget_data, c)
               => /\ OverCeiling(budget_data', c)
                  /\ ~can_make_request(budget_data', today', c[1], c[2]).ok
      ]_vars

\* C34 witness: a tracker reloaded on the second date, with no Google
\* request counted for that date, still over the ceiling for a Google
\* search.
C34_Witness ==
    /\ lastOp = "restart"
    /\ today = MaxDay
    /\ Count(budget_data, today, "google_places") = 0
    /\ OverCeiling(budget_data, <<"google_places", "search">>)
    /\ ~can_make_request(budget_data, today, "google_places", "search").ok

\* C35: daily counts are keyed by date: record_request adds one to the
\* current date's count of the named provider and leaves the count of every
\* other date and every other provider as it was; can_make_request answers
\* by the current date's count of the provider and the cost ceiling alone,
\* so a provider whose cap was used up on an earlier date is admitted on a
\* new date while the ceiling allows.
C35_CountsAreKeyedByDate ==
    [][/\ (lastOp' = "record_request" /\ nRecords' = nRecords + 1)
           => \E api_name \in Apis :
                  \A d \in Days : \A a \in Apis :
                      Count(budget_data', d, a) =
                          Count(budget_data, d, a)
                          + (IF d = today /\ a = api_name THEN 1 ELSE 0)
       /\ (lastOp' = "can_make_request" /\ today' = today
           /\ lastCheck'.day = today)
           => (lastCheck'.ok <=>
                  /\ Count(budget_data, today, lastCheck'.api)
                         < daily_limits(lastCheck'.api)
                  /\ ~OverCeiling(budget_data,
                                  <<lastCheck'.api, lastCheck'.endpoint>>))
      ]_vars

\* C35 witness: Google's cap was used up on the first date, and on the
\* second date a Google request is admitted.
C35_Witness ==
    /\ today = MaxDay
    /\ Count(budget_data, 1, "google_places") = GoogleDailyLimit
    /\ lastOp = "can_make_request"
    /\ lastCheck.day = today
    /\ lastCheck.api = "google_places"
    /\ lastCheck.ok


(***************************************************************************)
(* Claims about the admission times of the rate limiter, checked under     *)
(* SpecRate                                                                *)
(***************************************************************************)

\* C36: measured by the time at which wait_if_needed returns, a RateLimiter
\* with limit L never admits more than L calls inside a rolling window of
\* 60 seconds: of any L + 1 calls in a row, the last returns at least 60
\* seconds after the first.
C36_AdmissionsWithinLimit ==
    Len(admissions) = RequestsPerMinute + 1
        => admissions[Len(admissions)] - admissions[1] >= Window


(***************************************************************************)
(* Claims about what a governed adapter records, checked under             *)
(* SpecProviders                                                           *)
(***************************************************************************)

\* The step is a search of a held adapter that passed the budget check and
\* the rate gate and whose network request failed.
FailedNetworkCall ==
    /\ nRequests' = nRequests + 1
    /\ asked'.source \in Apis
    /\ asked'.net = "http_error"
    /\ \E i \in 1..Len(events') : events'[i].ev = "network"

\* C37: a governed adapter records a request only after its network call
\* came back well: a call that passed the gates and whose request failed
\* leaves every total_cost, every daily count, the budget file and the
\* alert log as they were, although its arrival was added to the adapter's
\* rate window; and each provider's count of a date, in its adapter's
\* tracker, is the number of good answers the provider gave on that date.
C37_OnlyAnsweredCallsAreRecorded ==
    [][/\ FailedNetworkCall =>
              /\ response'.status = 500
              /\ \A a \in Apis :
                     /\ trackers'[a].total_cost = trackers[a].total_cost
                     /\ trackers'[a].alerts_sent = trackers[a].alerts_sent
                     /\ \A d \in Days :
                            Count(trackers'[a], d, a) = Count(trackers[a], d, a)
              /\ budget_file' = budget_file
              /\ logged' = logged
              /\ limiters'[asked'.source] # limiters[asked'.source]
              /\ \E i \in 1..Len(limiters'[asked'.source]) :
                     limiters'[asked'.source][i] = now
       /\ \A a \in Apis : \A d \in Days :
              Count(trackers'[a], d, a) = answered'[d][a]]_vars

\* C37 witness: after one good answer the Google Places adapter passed the
\* gates again and the request failed.
C37_Witness ==
    /\ asked.source = "google_places"
    /\ asked.net = "http_error"
    /\ \E i \in 1..Len(events) : events[i].ev = "network"
    /\ Count(trackers["google_places"], today, "google_places") = 1
    /\ answered[today]["google_places"] = 1
    /\ Len(limiters["google_places"]) = 2


(***************************************************************************)
(* Claims about repeated alerts, checked under SpecBudget                  *)
(***************************************************************************)

\* The alerts the step logs.
NewlyLogged == { i \in 1..Len(logged') : i > Len(logged) }

\* The daily alert of a provider's current count of the date is in
\* alerts_sent: the alert has fired for the provider.
DailyAlertSent(api_name) ==
    \E j \in 1..Len(budget_data.alerts_sent) :
        /\ budget_data.alerts_sent[j].kind = "daily"
        /\ budget_data.alerts_sent[j].api = api_name
        /\ budget_data.alerts_sent[j].count
               = Count(budget_data, today, api_name)

\* A cost alert is in alerts_sent.
CostAlertSent ==
    \E j \in 1..Len(budget_data.alerts_sent) :
        budget_data.alerts_sent[j].kind = "cost"

\* C38: once the alert for 80% of a provider's daily cap has fired, further
\* record_request calls on that date log no daily alert for the provider
\* and add none to alerts_sent; and once the cost alert has fired, later
\* requests log no cost alert and add none to alerts_sent.  Stated for the
\* runs in which every recorded request was admitted by can_make_request.
C38_AlertsFireOncePerDate ==
    [][gated' =>
       /\ \A a \in Apis :
              (DailyAlertSent(a) /\ today' = today)
                  => /\ \A i \in NewlyLogged :
                            ~(logged'[i].kind = "daily" /\ logged'[i].api = a)
                     /\ \A j \in 1..Len(budget_data'.alerts_sent) :
                            (/\ budget_data'.alerts_sent[j].kind = "daily"
                             /\ budget_data'.alerts_sent[j].api = a)
                                => j <= Len(budget_data.alerts_sent)
       /\ CostAlertSent
              => /\ \A i \in NewlyLogged : logged'[i].kind # "cost"
                 /\ \A j \in 1..Len(budget_data'.alerts_sent) :
                        budget_data'.alerts_sent[j].kind = "cost"
                            => j <= Len(budget_data.alerts_sent)]_vars


(***************************************************************************)
(* Claims about details and reviews, checked under SpecCollector           *)
(***************************************************************************)

\* The latest request reached the collector's get_business_details or
\* get_business_reviews.
DetailsOrReviewsServed ==
    \/ response.view = "details"
    \/ response.view = "reviews" /\ asked.numeric

\* The adapter called by the latest request failed: it raised, or its
\* network request failed.
AdapterFailed ==
    \/ \E i \in 1..Len(events) : events[i].ev = "raise"
    \/ /\ asked.net = "http_error"
       /\ \E i \in 1..Len(events) : events[i].ev = "network"

\* C39: get_business_details and get_business_reviews never propagate an
\* exception and never fall back to mock: whatever the adapter of a
\* registered source does, the view is not answered with an error of the
\* collector; a failure of the adapter gives not-found for details and an
\* empty list for reviews; the mock adapter is called only when it is the
\* source; and what is returned is tagged with the source.
C39_DetailsAndReviewsAbsorbFailures ==
    DetailsOrReviewsServed =>
        /\ response.status # 500
        /\ AdapterFailed =>
               /\ response.items = <<>>
               /\ response.status = IF response.view = "details"
                                    THEN 404 ELSE 200
        /\ response.source # "mock" =>
               \A i \in 1..Len(events) : events[i].who # "mock"
        /\ \A i \in 1..Len(response.items) :
               response.items[i].data_source = response.source

\* C39 witness: Foursquare's reviews raised and the caller got an empty
\* list of reviews.
C39_Witness ==
    /\ response.view = "reviews"
    /\ asked.numeric
    /\ response.source = "foursquare"
    /\ \E i \in 1..Len(events) : events[i].ev = "raise"
    /\ response.status = 200
    /\ response.items = <<>>

====
